---- MODULE Spec2Model ----
(***************************************************************************)
(* Verification model of the mm-fun market-making pipeline.                *)
(*                                                                         *)
(* Part 1: the order-book synchronisation state machine                    *)
(* (mm_app/src/orderbook_sync.rs) and the batch handlers of the consumer   *)
(* processes (mm_pricing, mm_strategy, mm_simulator).                      *)
(* Part 2: the racing collector connections feeding one consumer.          *)
(* Part 3: the risk manager, the quote engine and the strategy's           *)
(* heartbeat staleness check.                                              *)
(* Part 4: the local order book (mm_orderbook/src/orderbook.rs).           *)
(* Part 5: the binary codec (mm_binary): CRC-32C, the order-book batch     *)
(* and heartbeat messages, the decimal parser and CompressedString.        *)
(* Part 6: the channel publisher thread (mm_app/src/publisher_helpers.rs). *)
(* Part 7: the stream subscriber (mm_aeron/src/subscriber.rs).             *)
(* Part 8: the simulated executor (mm_sim_executor) and the simulator's    *)
(* main loop.                                                              *)
(* Part 9: the WebSocket ingestor (mm_ws) and the programs that run it.    *)
(* Part 10: the backtest replay (mm_backtest).                             *)
(* Part 11: the rate limiters (mm_ratelimit).                              *)
(* Part 12: an order of the simulated executor over its fill ticks.        *)
(* Part 13: the fills stream from the simulator to the strategy.           *)
(* Part 14: the strategy's main loop with its market-data branch in full.  *)
(***************************************************************************)
EXTENDS Integers, Sequences, FiniteSets, TLC

VARIABLES
    proc,             \* which consumer binary this process is
    sync_state,       \* OrderbookSyncState of the process (unused by pricing)
    orderbook,        \* the local book: its seed snapshot and the batches applied
    now,              \* monotonic clock, in seconds
    batch,            \* the batch of the current loop iteration
    decision,         \* outcome of the sync state machine for that batch
    resync_count,     \* number of resync requests issued so far
    last_request_at,  \* time of the latest resync request
    stream,           \* market-data stream: batches published, not yet received
    conn_sent,        \* per racing connection: batches of the feed already sent
    risk_manager,     \* RiskManager of the quote engine
    position,         \* Position held by the inventory manager
    last_call,        \* the quote-engine or risk-manager method called last
    checked,          \* the quote handed to the last check_quote call
    check_result,     \* what that check_quote call returned
    quotes,           \* the quotes returned by the last generate call
    clock_ms,         \* wall clock of the host, in milliseconds
    hb_stream,        \* heartbeat stream: timestamps published, not yet received
    hb_last_sent,     \* collector: time of the latest heartbeat published
    last_heartbeat_timestamp,  \* atomic shared by monitor thread and main loop
    hb_received_at,   \* time the monitor last received a heartbeat (or started)
    last_heartbeat_check,      \* main loop: time of the latest staleness check
    pc,               \* main loop: "top" of the loop or blocked in "receive"
    recv_started,     \* time the blocking market-data receive began
    last_quote_publish,        \* main loop: time of the latest publish_quotes
    orderbook_synchronized,    \* main loop's flag gating quote publication
    order_book,       \* an OrderBook of mm_orderbook: its bid and ask levels
    lib_call,         \* the library function called last
    lib_arg,          \* the argument handed to that call
    lib_ret,          \* what that call returned
    rx,               \* in-process channel feeding a publisher thread
    sent,             \* number of messages the producers have enqueued
    pub_pc,           \* publisher thread: blocked in "recv" or in the "retry" loop
    msg_bytes,        \* publisher thread: the message taken from the channel
    retry_count,      \* publisher thread: retries counted in the retry loop
    sleep_us,         \* publisher thread: length of the latest backoff sleep
    offered,          \* messages offered to the transport, in order of first offer
    publication,      \* the stream: messages the transport accepted, not yet polled
    dropped,          \* messages the publisher thread logged and gave up on
    message_buffer,   \* Subscriber: the slot the fragment handler writes
    received,         \* what the subscriber's receive calls have returned
    simulator,        \* OrderBookSimulator of the simulator process
    sim_log,          \* history: when each order was placed, the fills produced
    deployment,       \* which program runs the WebSocket ingestor
    flag,             \* the running flags (Arc<AtomicBool>), by owner
    chan,             \* per BinanceIngestor object: frames in its bounded channel
    threads,          \* per thread: its position, and the channel and flag it holds
    socket,           \* frames the server has sent and ws.read() has not returned
    arrived,          \* number of frames the server has sent
    handled,          \* frames handed to the processing callback, in order
    ctrl_c,           \* Ctrl-C handling: "default", "handler" installed, "received"
    loaded,           \* backtest: the events handed to HistoricalDataStream::new
    data_stream,      \* HistoricalDataStream of the replay engine
    elapsed_real,     \* nanoseconds since the replay engine's start_instant
    replay_pc,        \* replay thread: "running", "complete", or ended by an "error"
    fixed_window,     \* FixedWindow: its atomics count and window_start
    time_nanos,       \* TimeSource::now_nanos
    callers,          \* per thread in try_acquire: its position and its locals
    granted,          \* per window: weight granted to calls made in that window
    limiters          \* MultiLimiter: its member limiters, in the order added

consumerVars == <<proc, sync_state, orderbook, now, batch, decision,
                  resync_count, last_request_at>>
raceVars == <<stream, conn_sent>>
engineVars == <<risk_manager, position, last_call, checked, check_result,
                quotes>>
loopVars == <<clock_ms, hb_stream, hb_last_sent, last_heartbeat_timestamp,
              hb_received_at, last_heartbeat_check, pc, recv_started,
              last_quote_publish, orderbook_synchronized>>
libVars == <<order_book, lib_call, lib_arg, lib_ret>>
pubVars == <<rx, sent, pub_pc, msg_bytes, retry_count, sleep_us, offered,
             publication, dropped>>
subVars == <<message_buffer, received>>
simVars == <<simulator, sim_log>>
wsVars == <<deployment, flag, chan, threads, socket, arrived, handled, ctrl_c>>
replayVars == <<loaded, data_stream, elapsed_real, replay_pc>>
limiterVars == <<fixed_window, time_nanos, callers, granted, limiters>>
extVars == <<wsVars, replayVars, limiterVars>>
ioVars == <<pubVars, subVars, simVars, extVars>>
coreVars == <<consumerVars, raceVars, engineVars, loopVars, libVars, pubVars,
              subVars, simVars>>
vars == <<proc, sync_state, orderbook, now, batch, decision, resync_count,
          last_request_at, stream, conn_sent, risk_manager, position,
          last_call, checked, check_result, quotes, clock_ms, hb_stream,
          hb_last_sent, last_heartbeat_timestamp, hb_received_at,
          last_heartbeat_check, pc, recv_started, last_quote_publish,
          orderbook_synchronized, order_book, lib_call, lib_arg, lib_ret, rx, sent,
          pub_pc, msg_bytes, retry_count, sleep_us, offered, publication,
          dropped, message_buffer, received, simulator, sim_log, deployment,
          flag, chan, threads, socket, arrived, handled, ctrl_c, loaded,
          data_stream, elapsed_real, replay_pc, fixed_window, time_nanos,
          callers, granted, limiters>>

(***************************************************************************)
(* Bounds and program constants                                            *)
(***************************************************************************)
MaxId == 2            \* update ids range over 0..MaxId
MaxApplied == 2       \* batches applied to one book seed
MaxTicks == 2         \* clock advances
TickSecs == 15        \* seconds per clock advance
MaxResyncs == 2       \* resync requests per run
MaxSkips == 2         \* consecutive skips followed when no resync is in play
SkipSlack == 2        \* skips counted beyond the resync threshold
FeedLen == 3          \* batches in the racing feed
MaxStream == 2        \* batches in flight on the market-data stream

RESYNC_SKIP_THRESHOLD == 20
RESYNC_COOLDOWN_SECS == 30

Ids == 0..MaxId
None == [some |-> FALSE]
Some(x) == [some |-> TRUE, val |-> x]

\* A decoded OrderBookBatchMessage, reduced to its sequence ids.
Batches == {[U |-> a, u |-> b, pu |-> c] : a \in Ids, b \in Ids, c \in Ids}
NoBatch == [U |-> 0, u |-> 0, pu |-> 0, none |-> TRUE]

\* A frame built without sequence ids carries zeros in all three.
LegacyBatch == [U |-> 0, u |-> 0, pu |-> 0]

(***************************************************************************)
(* OrderbookSyncState                                                      *)
(***************************************************************************)
New(snapshot_id) ==
    [snapshot_last_update_id |-> snapshot_id,
     last_processed_update_id |-> 0,
     is_synchronized |-> FALSE,
     consecutive_skipped_updates |-> 0,
     last_resync_attempt |-> None]

\* should_process_update with the drop test written u <= snapshot id.
ShouldProcessUpdate_DropsSyncPoint(st, b) ==
    IF ~st.is_synchronized
    THEN IF b.u <= st.snapshot_last_update_id
         THEN [st |-> [st EXCEPT !.consecutive_skipped_updates = @ + 1],
               ret |-> FALSE]
         ELSE IF b.U <= st.snapshot_last_update_id
                 /\ b.u >= st.snapshot_last_update_id
              THEN [st |-> [st EXCEPT !.is_synchronized = TRUE,
                                      !.last_processed_update_id = b.u,
                                      !.consecutive_skipped_updates = 0],
                    ret |-> TRUE]
              ELSE [st |-> [st EXCEPT !.consecutive_skipped_updates = @ + 1],
                    ret |-> FALSE]
    ELSE IF b.pu # 0 /\ b.pu # st.last_processed_update_id
         THEN [st |-> [st EXCEPT !.is_synchronized = FALSE,
                                 !.consecutive_skipped_updates = @ + 1],
               ret |-> FALSE]
         ELSE [st |-> [st EXCEPT !.last_processed_update_id = b.u,
                                 !.consecutive_skipped_updates = 0],
               ret |-> TRUE]

\* should_process_update with the continuity test lacking the pu = 0 case.
ShouldProcessUpdate_NoUnknownPu(st, b) ==
    IF ~st.is_synchronized
    THEN IF b.u < st.snapshot_last_update_id
         THEN [st |-> [st EXCEPT !.consecutive_skipped_updates = @ + 1],
               ret |-> FALSE]
         ELSE IF b.U <= st.snapshot_last_update_id
                 /\ b.u >= st.snapshot_last_update_id
              THEN [st |-> [st EXCEPT !.is_synchronized = TRUE,
                                      !.last_processed_update_id = b.u,
                                      !.consecutive_skipped_updates = 0],
                    ret |-> TRUE]
              ELSE [st |-> [st EXCEPT !.consecutive_skipped_updates = @ + 1],
                    ret |-> FALSE]
    ELSE IF b.pu # st.last_processed_update_id
         THEN [st |-> [st EXCEPT !.is_synchronized = FALSE,
                                 !.consecutive_skipped_updates = @ + 1],
               ret |-> FALSE]
         ELSE [st |-> [st EXCEPT !.last_processed_update_id = b.u,
                                 !.consecutive_skipped_updates = 0],
               ret |-> TRUE]

\* should_process_update: the state after the call and the value returned.
ShouldProcessUpdate(st, b) ==
    IF ~st.is_synchronized
    THEN IF b.u < st.snapshot_last_update_id
         THEN [st |-> [st EXCEPT !.consecutive_skipped_updates = @ + 1],
               ret |-> FALSE]
         ELSE IF b.U <= st.snapshot_last_update_id
                 /\ b.u >= st.snapshot_last_update_id
              THEN [st |-> [st EXCEPT !.is_synchronized = TRUE,
                                      !.last_processed_update_id = b.u,
                                      !.consecutive_skipped_updates = 0],
                    ret |-> TRUE]
              ELSE [st |-> [st EXCEPT !.consecutive_skipped_updates = @ + 1],
                    ret |-> FALSE]
    ELSE IF b.pu # 0 /\ b.pu # st.last_processed_update_id
         THEN [st |-> [st EXCEPT !.is_synchronized = FALSE,
                                 !.consecutive_skipped_updates = @ + 1],
               ret |-> FALSE]
         ELSE [st |-> [st EXCEPT !.last_processed_update_id = b.u,
                                 !.consecutive_skipped_updates = 0],
               ret |-> TRUE]

\* The cooldown test written elapsed <= RESYNC_COOLDOWN_SECS.
CooldownActive_Inclusive(st, t) ==
    st.last_resync_attempt.some
    /\ t - st.last_resync_attempt.val <= RESYNC_COOLDOWN_SECS

\* The cooldown test of should_resync: elapsed.as_secs() < RESYNC_COOLDOWN_SECS.
CooldownActive(st, t) ==
    st.last_resync_attempt.some
    /\ t - st.last_resync_attempt.val < RESYNC_COOLDOWN_SECS

\* should_resync at time t: the state after the call and the value returned.
ShouldResync(st, t) ==
    IF st.is_synchronized
    THEN [st |-> st, ret |-> FALSE]
    ELSE IF st.consecutive_skipped_updates < RESYNC_SKIP_THRESHOLD
         THEN [st |-> st, ret |-> FALSE]
         ELSE IF CooldownActive(st, t)
              THEN [st |-> st, ret |-> FALSE]
              ELSE [st |-> [st EXCEPT !.last_resync_attempt = Some(t)],
                    ret |-> TRUE]

(***************************************************************************)
(* The local order book, as far as the sync claims need it: the snapshot   *)
(* that seeded it and the final ids of the batches applied since, in       *)
(* order.                                                                  *)
(***************************************************************************)
Seeded(snapshot_id) == [seed |-> snapshot_id, applied |-> <<>>]

ApplyBatch(book, b) == [book EXCEPT !.applied = Append(@, b.u)]

(***************************************************************************)
(* Batch handling of mm_strategy and mm_simulator (the two loops are the   *)
(* same code): should_process_update, then should_resync and the snapshot  *)
(* re-fetch on a skip, apply_batch otherwise.  fetched is the outcome of   *)
(* fetch_orderbook_snapshot: Some(lastUpdateId) or None on error.          *)
(***************************************************************************)
Fetches == {None} \cup {Some(s) : s \in Ids}

SyncedHandle(b, skips_cap, applies_cap) ==
    LET p == ShouldProcessUpdate(sync_state, b)
        r == ShouldResync(p.st, now)
    IN  /\ batch' = b
        /\ IF ~p.ret
           THEN IF r.ret
                THEN /\ resync_count < MaxResyncs
                     /\ decision' = "request_resync"
                     /\ resync_count' = resync_count + 1
                     /\ last_request_at' = Some(now)
                     /\ \E fetched \in Fetches :
                          IF fetched.some
                          THEN /\ orderbook' = Seeded(fetched.val)
                               /\ sync_state' = New(fetched.val)
                          ELSE /\ orderbook' = orderbook
                               /\ sync_state' = r.st
                ELSE /\ p.st.consecutive_skipped_updates <= skips_cap
                     /\ decision' = "skip"
                     /\ sync_state' = r.st
                     /\ UNCHANGED <<orderbook, resync_count, last_request_at>>
           ELSE /\ Len(orderbook.applied) < applies_cap
                /\ decision' = "apply"
                /\ sync_state' = p.st
                /\ orderbook' = ApplyBatch(orderbook, b)
                /\ UNCHANGED <<resync_count, last_request_at>>
        /\ UNCHANGED <<proc, now>>
        /\ UNCHANGED <<engineVars, loopVars, libVars, ioVars>>

StrategyOnBatch ==
    /\ proc = "strategy"
    /\ \E b \in Batches : SyncedHandle(b, MaxSkips, MaxApplied)
    /\ UNCHANGED raceVars

SimulatorOnBatch ==
    /\ proc = "simulator"
    /\ \E b \in Batches : SyncedHandle(b, MaxSkips, MaxApplied)
    /\ UNCHANGED raceVars

\* mm_pricing: every batch for the symbol is applied; there is no sync state.
PricingHandle(b) ==
    /\ Len(orderbook.applied) < MaxApplied
    /\ batch' = b
    /\ decision' = "none"
    /\ orderbook' = ApplyBatch(orderbook, b)
    /\ UNCHANGED <<proc, sync_state, now, resync_count, last_request_at>>
    /\ UNCHANGED <<engineVars, loopVars, libVars, ioVars>>

PricingOnBatch ==
    /\ proc = "pricing"
    /\ \E b \in Batches : PricingHandle(b)
    /\ UNCHANGED raceVars

\* Time passes between two loop iterations.
Tick ==
    /\ now + TickSecs <= MaxTicks * TickSecs
    /\ now' = now + TickSecs
    /\ batch' = NoBatch
    /\ decision' = "none"
    /\ UNCHANGED <<proc, sync_state, orderbook, resync_count, last_request_at>>
    /\ UNCHANGED <<raceVars, engineVars, loopVars, libVars, ioVars>>

(***************************************************************************)
(* Risk manager and quote engine (mm_strategy/src/risk_manager.rs,         *)
(* quote_engine.rs, mm_types/src/lib.rs).                                  *)
(*                                                                         *)
(* Units.  A FixedPoint is carried as its raw integer at two decimals     *)
(* instead of the code's eight (FixedPointScale), so 1.0 is 100: prices,   *)
(* sizes, positions and PnL alike.  Confidence is in percent.  A basis     *)
(* point argument is carried as the integer the code casts it to,          *)
(* (bps * 10000.0) as i128.                                                *)
(***************************************************************************)
FixedPointScale == 100        \* raw units per 1.0
MAX_POSITION_SIZE == 1000     \* StrategyConfig::default: 10.0
MAX_ORDER_SIZE == 100         \* StrategyConfig::default: 1.0
MIN_CONFIDENCE == 50          \* StrategyConfig::default: 0.5

Config ==
    [max_position_size |-> MAX_POSITION_SIZE,
     max_order_size |-> MAX_ORDER_SIZE,
     min_confidence |-> MIN_CONFIDENCE]

Abs(x) == IF x < 0 THEN -x ELSE x

\* Integer division of Rust: the quotient is truncated towards zero.
TruncDiv(a, b) == IF a >= 0 THEN a \div b ELSE -((-a) \div b)

\* FixedPoint::apply_bps and subtract_bps; k is (bps * 10000.0) as i128.
ApplyBps(p, k) == p + TruncDiv(p * k, 100000000)
SubtractBps(p, k) == p - TruncDiv(p * k, 100000000)

\* FixedPoint::mul_scalar by the scalar 1 / d.
MulScalarInv(x, d) == TruncDiv(x, d)

\* MarketState::mid_price.
MidPrice(state) == TruncDiv(state.bid_price + state.ask_price, 2)

\* RiskManager::new; the default daily loss limit is -1000.0.
NewRiskManager ==
    [is_killed |-> FALSE,
     kill_reason |-> None,
     daily_realized_pnl |-> 0,
     max_daily_loss |-> Some(0 - 1000 * FixedPointScale)]

\* Position::new
NewPosition == [quantity |-> 0, avg_entry_price |-> 0, realized_pnl |-> 0]

NoQuote == [none |-> TRUE]

StrategyQuote(bp, bs, ap, as, conf) ==
    [bid_price |-> bp, bid_size |-> bs, ask_price |-> ap, ask_size |-> as,
     confidence |-> conf]

CheckDailyLoss(rm) ==
    IF rm.max_daily_loss.some /\ rm.daily_realized_pnl < rm.max_daily_loss.val
    THEN "Daily loss limit breached"
    ELSE "Accept"

CheckPositionLimit(pos) ==
    IF Abs(pos.quantity) > Config.max_position_size
    THEN "Position limit exceeded"
    ELSE "Accept"

CheckOrderSize(order_size) ==
    IF Abs(order_size) > Config.max_order_size
    THEN "Order size exceeds limit"
    ELSE IF Abs(order_size) <= 0
         THEN "Order size must be positive"
         ELSE "Accept"

\* check_quote with the spread sanity test written bid_price > ask_price.
CheckQuote_AllowsLocked(rm, quote, pos, mark) ==
    IF rm.is_killed THEN "Strategy killed"
    ELSE IF CheckDailyLoss(rm) # "Accept" THEN CheckDailyLoss(rm)
    ELSE IF CheckPositionLimit(pos) # "Accept" THEN CheckPositionLimit(pos)
    ELSE IF CheckOrderSize(quote.bid_size) # "Accept" THEN "Bid size"
    ELSE IF CheckOrderSize(quote.ask_size) # "Accept" THEN "Ask size"
    ELSE IF quote.bid_price > quote.ask_price THEN "Crossed quotes"
    ELSE IF Abs(quote.bid_price - mark) * 10 > mark
         THEN "Bid price too far from mark"
    ELSE IF Abs(quote.ask_price - mark) * 10 > mark
         THEN "Ask price too far from mark"
    ELSE IF quote.confidence < Config.min_confidence
         THEN "Confidence too low"
    ELSE "Accept"

\* check_quote without the test of the kill switch.
CheckQuote_IgnoresKill(rm, quote, pos, mark) ==
    IF CheckDailyLoss(rm) # "Accept" THEN CheckDailyLoss(rm)
    ELSE IF CheckPositionLimit(pos) # "Accept" THEN CheckPositionLimit(pos)
    ELSE IF CheckOrderSize(quote.bid_size) # "Accept" THEN "Bid size"
    ELSE IF CheckOrderSize(quote.ask_size) # "Accept" THEN "Ask size"
    ELSE IF quote.bid_price >= quote.ask_price THEN "Crossed quotes"
    ELSE IF Abs(quote.bid_price - mark) * 10 > mark
         THEN "Bid price too far from mark"
    ELSE IF Abs(quote.ask_price - mark) * 10 > mark
         THEN "Ask price too far from mark"
    ELSE IF quote.confidence < Config.min_confidence
         THEN "Confidence too low"
    ELSE "Accept"

\* check_quote: "Accept", or the reason of the first check that rejects.
\* (bid - mark).abs() / mark > 0.1 is written without the division.
CheckQuote(rm, quote, pos, mark) ==
    IF rm.is_killed THEN "Strategy killed"
    ELSE IF CheckDailyLoss(rm) # "Accept" THEN CheckDailyLoss(rm)
    ELSE IF CheckPositionLimit(pos) # "Accept" THEN CheckPositionLimit(pos)
    ELSE IF CheckOrderSize(quote.bid_size) # "Accept" THEN "Bid size"
    ELSE IF CheckOrderSize(quote.ask_size) # "Accept" THEN "Ask size"
    ELSE IF quote.bid_price >= quote.ask_price THEN "Crossed quotes"
    ELSE IF Abs(quote.bid_price - mark) * 10 > mark
         THEN "Bid price too far from mark"
    ELSE IF Abs(quote.ask_price - mark) * 10 > mark
         THEN "Ask price too far from mark"
    ELSE IF quote.confidence < Config.min_confidence
         THEN "Confidence too low"
    ELSE "Accept"

(***************************************************************************)
(* generate_quotes.  The drift estimator, the volatility average and the   *)
(* inventory manager compute in f64; est carries what they hand to the     *)
(* fixed-point arithmetic: the drift and the two spreads as cast bps       *)
(* arguments, the two sizes and the confidence.                            *)
(***************************************************************************)
CandidateQuote(state, est) ==
    LET fair_value == ApplyBps(MidPrice(state), est.drift)
    IN  StrategyQuote(SubtractBps(fair_value, est.bid_spread), est.bid_size,
                      ApplyBps(fair_value, est.ask_spread), est.ask_size,
                      est.confidence)

GenerateQuotes(rm, pos, state, est) ==
    IF rm.is_killed
    THEN None
    ELSE IF CheckQuote(rm, CandidateQuote(state, est), pos, MidPrice(state))
              = "Accept"
         THEN Some(CandidateQuote(state, est))
         ELSE None

\* generate_ladder_quotes: level k of the ladder built on the base quote.
LevelQuote(base, level, spacing) ==
    StrategyQuote(SubtractBps(base.bid_price, spacing * level),
                  MulScalarInv(base.bid_size, level + 1),
                  ApplyBps(base.ask_price, spacing * level),
                  MulScalarInv(base.ask_size, level + 1),
                  MulScalarInv(base.confidence, level + 1))

RECURSIVE LadderLevels(_, _, _, _, _, _, _)
LadderLevels(rm, pos, mark, base, level, num_levels, spacing) ==
    IF level >= num_levels
    THEN <<>>
    ELSE IF CheckQuote(rm, LevelQuote(base, level, spacing), pos, mark)
              = "Accept"
         THEN <<LevelQuote(base, level, spacing)>>
                \o LadderLevels(rm, pos, mark, base, level + 1, num_levels,
                                spacing)
         ELSE <<>>

GenerateLadderQuotes(rm, pos, state, est, num_levels, spacing) ==
    LET base == GenerateQuotes(rm, pos, state, est)
    IN  IF base.some
        THEN <<base.val>>
               \o LadderLevels(rm, pos, MidPrice(state), base.val, 1,
                               num_levels, spacing)
        ELSE <<>>

EngineIdle ==
    /\ risk_manager = NewRiskManager
    /\ position = NewPosition
    /\ last_call = "new"
    /\ checked = NoQuote
    /\ check_result = "none"
    /\ quotes = <<>>

LoopIdle ==
    /\ clock_ms = 0
    /\ hb_stream = <<>>
    /\ hb_last_sent = 0
    /\ last_heartbeat_timestamp = 0
    /\ hb_received_at = 0
    /\ last_heartbeat_check = 0
    /\ pc = "top"
    /\ recv_started = 0
    /\ last_quote_publish = 0
    /\ orderbook_synchronized = FALSE

(***************************************************************************)
(* Part 4: the order book of mm_orderbook.  A ladder (BTreeMap<i64, i64>)  *)
(* is a function from the prices it holds to their quantities.             *)
(***************************************************************************)
MapInsert(m, k, v) ==
    [x \in (DOMAIN m) \cup {k} |-> IF x = k THEN v ELSE m[x]]

MapRemove(m, k) == [x \in (DOMAIN m) \ {k} |-> m[x]]

EmptyMap == [x \in {} |-> 0]

OrderBookNew == [timestamp |-> 0, bids |-> EmptyMap, asks |-> EmptyMap]

UpdateBid_StoresZero(ob, price, quantity) ==
    [ob EXCEPT !.bids = MapInsert(ob.bids, price, quantity)]

UpdateBid(ob, price, quantity) ==
    IF quantity = 0
    THEN [ob EXCEPT !.bids = MapRemove(ob.bids, price)]
    ELSE [ob EXCEPT !.bids = MapInsert(ob.bids, price, quantity)]

UpdateAsk(ob, price, quantity) ==
    IF quantity = 0
    THEN [ob EXCEPT !.asks = MapRemove(ob.asks, price)]
    ELSE [ob EXCEPT !.asks = MapInsert(ob.asks, price, quantity)]

RECURSIVE ApplyBids(_, _)
ApplyBids(ob, levels) ==
    IF levels = <<>> THEN ob
    ELSE LET bid == Head(levels)
             next == IF bid.price > 0
                     THEN UpdateBid(ob, bid.price, bid.size)
                     ELSE ob
         IN ApplyBids(next, Tail(levels))

RECURSIVE ApplyAsks(_, _)
ApplyAsks(ob, levels) ==
    IF levels = <<>> THEN ob
    ELSE LET ask == Head(levels)
             next == IF ask.price > 0
                     THEN UpdateAsk(ob, ask.price, ask.size)
                     ELSE ob
         IN ApplyAsks(next, Tail(levels))

\* OrderBook::apply_batch: the bids, then the asks, then the timestamp.
OrderBookApplyBatch(ob, b) ==
    [ApplyAsks(ApplyBids(ob, b.bids), b.asks) EXCEPT !.timestamp = b.timestamp]

MaxKey(m) == CHOOSE k \in DOMAIN m : \A x \in DOMAIN m : x <= k

MinKey(m) == CHOOSE k \in DOMAIN m : \A x \in DOMAIN m : k <= x

BestBid(ob) ==
    IF DOMAIN ob.bids = {} THEN None
    ELSE Some(<<MaxKey(ob.bids), ob.bids[MaxKey(ob.bids)]>>)

BestAsk(ob) ==
    IF DOMAIN ob.asks = {} THEN None
    ELSE Some(<<MinKey(ob.asks), ob.asks[MinKey(ob.asks)]>>)

BookSpread(ob) ==
    IF BestBid(ob).some /\ BestAsk(ob).some
    THEN Some(BestAsk(ob).val[1] - BestBid(ob).val[1])
    ELSE None

NoArg == [none |-> TRUE]

LibIdle ==
    /\ order_book = OrderBookNew
    /\ lib_call = "none"
    /\ lib_arg = NoArg
    /\ lib_ret = NoArg

\* OrderBookSimulator::new
SimulatorNew ==
    [next_order_id |-> 1, active_orders |-> EmptyMap,
     position |-> NewPosition, fills |-> <<>>]

\* The threads of an ingesting process, and a thread not yet spawned;
\* chan and flag name the channel and the running flag the thread holds.
ThreadNames == {"main", "reader", "processing", "periodic", "publisher"}
FlagNames == {"process", "multi", "ingestor1", "ingestor2"}
Unspawned == [pc |-> "unspawned", chan |-> 0, flag |-> "process"]

WsIdle ==
    /\ deployment = "none"
    /\ flag = [f \in FlagNames |-> FALSE]
    /\ chan = [c \in {1, 2} |-> <<>>]
    /\ threads = [t \in ThreadNames |-> Unspawned]
    /\ socket = <<>>
    /\ arrived = 0
    /\ handled = <<>>
    /\ ctrl_c = "default"

ReplayIdle ==
    /\ loaded = <<>>
    /\ data_stream = [events |-> <<>>, current_time |-> 0, replay_speed |-> 1]
    /\ elapsed_real = 0
    /\ replay_pc = "complete"

\* FixedWindow::new(limit, window) at time 0; a thread outside try_acquire.
FixedWindowNew(limit, window_nanos) ==
    [count |-> 0, window_start |-> 0, limit |-> limit,
     window_nanos |-> window_nanos]
NotCalling ==
    [pc |-> "idle", weight |-> 0, now |-> 0, window_start |-> 0,
     current |-> 0, called_at |-> 0, calls |-> 0]

LimiterIdle ==
    /\ fixed_window = FixedWindowNew(1, 1)
    /\ time_nanos = 0
    /\ callers = [t \in {1, 2} |-> NotCalling]
    /\ granted = [k \in {0} |-> 0]
    /\ limiters = <<>>

ExtIdle == WsIdle /\ ReplayIdle /\ LimiterIdle

PubSubIdle ==
    /\ rx = <<>>
    /\ sent = 0
    /\ pub_pc = "recv"
    /\ msg_bytes = 0
    /\ retry_count = 0
    /\ sleep_us = 0
    /\ offered = <<>>
    /\ publication = <<>>
    /\ dropped = {}
    /\ message_buffer = None
    /\ received = <<>>

StreamsIdle ==
    /\ PubSubIdle
    /\ simulator = SimulatorNew
    /\ sim_log = [placed_at |-> EmptyMap, produced |-> <<>>]

IoIdle == StreamsIdle /\ ExtIdle

RaceIdle == stream = <<>> /\ conn_sent = [c \in {1, 2} |-> 0]

ConsumerInit(procs) ==
    /\ proc \in procs
    /\ \E s \in Ids : sync_state = New(s) /\ orderbook = Seeded(s)
    /\ now = 0
    /\ batch = NoBatch
    /\ decision = "none"
    /\ resync_count = 0
    /\ last_request_at = None

Init ==
    /\ ConsumerInit({"pricing", "strategy", "simulator"})
    /\ RaceIdle /\ EngineIdle /\ LoopIdle /\ LibIdle /\ IoIdle

Next == StrategyOnBatch \/ SimulatorOnBatch \/ PricingOnBatch

Spec == Init /\ [][Next]_vars

(***************************************************************************)
(* Resync policy: the same handlers followed through the skip threshold,   *)
(* with the clock running.  The batches are single-update batches          *)
(* (U = u = pu), which still give every outcome of should_process_update.  *)
(***************************************************************************)
ResyncBatches == {b \in Batches : b.U = b.u /\ b.pu = b.u}

StrategyOnBatchUntilResync ==
    /\ proc = "strategy"
    /\ \E b \in ResyncBatches :
           SyncedHandle(b, RESYNC_SKIP_THRESHOLD + SkipSlack, MaxApplied)
    /\ UNCHANGED raceVars

SimulatorOnBatchUntilResync ==
    /\ proc = "simulator"
    /\ \E b \in ResyncBatches :
           SyncedHandle(b, RESYNC_SKIP_THRESHOLD + SkipSlack, MaxApplied)
    /\ UNCHANGED raceVars

InitResync ==
    /\ ConsumerInit({"strategy", "simulator"})
    /\ RaceIdle /\ EngineIdle /\ LoopIdle /\ LibIdle /\ IoIdle

NextResync == StrategyOnBatchUntilResync \/ SimulatorOnBatchUntilResync \/ Tick

SpecResync == InitResync /\ [][NextResync]_vars

(***************************************************************************)
(* Racing connections: the collector runs two WebSocket connections on the *)
(* same depth stream.  Each connection's parser thread encodes every frame *)
(* it receives and hands it to the one publisher queue, so the market-data *)
(* stream carries the feed twice, interleaved.  The feed is gap-free:      *)
(* batch k covers the ids 2k..2k+1 and names 2k-1 as its predecessor.      *)
(***************************************************************************)
FeedBatch(k) == [U |-> 2 * k, u |-> 2 * k + 1, pu |-> 2 * k - 1]

FeedIds == (2 * 1)..(2 * FeedLen + 1)

\* parse_and_send_batch on connection c, and the publisher thread's publish.
ConnSend(c) ==
    /\ conn_sent[c] < FeedLen
    /\ Len(stream) < MaxStream
    /\ stream' = Append(stream, FeedBatch(conn_sent[c] + 1))
    /\ conn_sent' = [conn_sent EXCEPT ![c] = @ + 1]
    /\ UNCHANGED <<consumerVars, engineVars, loopVars, libVars, ioVars>>

\* The strategy's loop receives the oldest batch of the stream.
StrategyReceive ==
    /\ proc = "strategy"
    /\ stream # <<>>
    /\ SyncedHandle(Head(stream), 2 * FeedLen, 2 * FeedLen)
    /\ stream' = Tail(stream)
    /\ UNCHANGED conn_sent

InitRace ==
    /\ proc = "strategy"
    /\ \E s \in FeedIds : sync_state = New(s) /\ orderbook = Seeded(s)
    /\ now = 0
    /\ batch = NoBatch
    /\ decision = "none"
    /\ resync_count = 0
    /\ last_request_at = None
    /\ RaceIdle /\ EngineIdle /\ LoopIdle /\ LibIdle /\ IoIdle

NextRace == ConnSend(1) \/ ConnSend(2) \/ StrategyReceive

SpecRace == InitRace /\ [][NextRace]_vars

(***************************************************************************)
(* The quote engine driven through its public methods.  Every call records *)
(* its name in last_call and what it returned in check_result or quotes.   *)
(***************************************************************************)
MaxPnlSteps == 3      \* losses booked per run
PnlStep == 50000      \* size of one booked loss (500.0)
NumLevels == 3        \* ladder levels asked for
LevelSpacing == 2000000   \* ladder spacing as a cast bps argument (200 bps)

KillReasons == {"Heartbeat timeout", "operator"}

QuotePrices == {99, 100, 101}
SizePairs == {<<10, 10>>, <<0, 10>>, <<10, MAX_ORDER_SIZE + 1>>,
              <<0 - 10, 10>>}
Confidences == {40, 100}
Positions ==
    {[NewPosition EXCEPT !.quantity = q, !.avg_entry_price = 100] :
        q \in {0, MAX_POSITION_SIZE, 0 - (MAX_POSITION_SIZE + 1)}}

\* Quotes a caller may hand to check_quote.
QuoteInputs ==
    {StrategyQuote(bp, sz[1], ap, sz[2], conf) :
        bp \in QuotePrices, ap \in QuotePrices, sz \in SizePairs,
        conf \in Confidences}

\* Best bid and ask of the book a quote is generated for.
MarketStates ==
    {[bid_price |-> 99, ask_price |-> 101],
     [bid_price |-> 100, ask_price |-> 104]}

SpreadPairs == {<<1000000, 1000000>>, <<0, 0>>, <<0 - 1000000, 2000000>>,
                <<2000000, 0 - 3000000>>, <<12000000, 1000000>>,
                <<1000000, 12000000>>}

Estimates ==
    {[drift |-> d, bid_spread |-> sp[1], ask_spread |-> sp[2],
      bid_size |-> sz[1], ask_size |-> sz[2], confidence |-> conf] :
        d \in {0, 1000000}, sp \in SpreadPairs, sz \in SizePairs,
        conf \in Confidences}

\* A call that returns nothing leaves no return value behind.
NoReturn == checked' = NoQuote /\ check_result' = "none" /\ quotes' = <<>>

Kill(reason) ==
    /\ risk_manager' = [risk_manager EXCEPT !.is_killed = TRUE,
                                            !.kill_reason = Some(reason)]
    /\ last_call' = "kill"
    /\ NoReturn
    /\ UNCHANGED position

Resume ==
    /\ risk_manager' = [risk_manager EXCEPT !.is_killed = FALSE,
                                            !.kill_reason = None]
    /\ last_call' = "resume"
    /\ NoReturn
    /\ UNCHANGED position

UpdateDailyPnl(pnl_change) ==
    /\ Abs(risk_manager.daily_realized_pnl + pnl_change)
         <= MaxPnlSteps * PnlStep
    /\ risk_manager' = [risk_manager EXCEPT !.daily_realized_pnl =
                                                @ + pnl_change]
    /\ last_call' = "update_daily_pnl"
    /\ NoReturn
    /\ UNCHANGED position

ResetDailyPnl ==
    /\ risk_manager' = [risk_manager EXCEPT !.daily_realized_pnl = 0]
    /\ last_call' = "reset_daily_pnl"
    /\ NoReturn
    /\ UNCHANGED position

UpdatePosition(pos) ==
    /\ position' = pos
    /\ last_call' = "update_position"
    /\ NoReturn
    /\ UNCHANGED risk_manager

CheckQuoteCall(quote, mark) ==
    /\ checked' = quote
    /\ check_result' = CheckQuote(risk_manager, quote, position, mark)
    /\ last_call' = "check_quote"
    /\ quotes' = <<>>
    /\ UNCHANGED <<risk_manager, position>>

GenerateQuotesCall(state, est) ==
    LET quote == GenerateQuotes(risk_manager, position, state, est)
    IN  /\ quotes' = IF quote.some THEN <<quote.val>> ELSE <<>>
        /\ last_call' = "generate_quotes"
        /\ checked' = NoQuote
        /\ check_result' = "none"
        /\ UNCHANGED <<risk_manager, position>>

GenerateLadderQuotesCall(state, est, num_levels) ==
    /\ quotes' = GenerateLadderQuotes(risk_manager, position, state, est,
                                      num_levels, LevelSpacing)
    /\ last_call' = "generate_ladder_quotes"
    /\ checked' = NoQuote
    /\ check_result' = "none"
    /\ UNCHANGED <<risk_manager, position>>

ConsumerIdle ==
    /\ proc = "strategy"
    /\ sync_state = New(0)
    /\ orderbook = Seeded(0)
    /\ now = 0
    /\ batch = NoBatch
    /\ decision = "none"
    /\ resync_count = 0
    /\ last_request_at = None

InitRisk == ConsumerIdle /\ RaceIdle /\ EngineIdle /\ LoopIdle /\ LibIdle /\ IoIdle

\* The public methods, called by a client of the engine in any order.
apiFrame == <<consumerVars, raceVars, loopVars, libVars, ioVars>>

KillCall ==
    (\E reason \in KillReasons : Kill(reason)) /\ UNCHANGED apiFrame

ResumeCall == Resume /\ UNCHANGED apiFrame

UpdateDailyPnlCall == UpdateDailyPnl(0 - PnlStep) /\ UNCHANGED apiFrame

ResetDailyPnlCall == ResetDailyPnl /\ UNCHANGED apiFrame

UpdatePositionCall ==
    (\E pos \in Positions : UpdatePosition(pos))
    /\ UNCHANGED apiFrame

CheckQuoteApi ==
    (\E quote \in QuoteInputs : CheckQuoteCall(quote, 100))
    /\ UNCHANGED apiFrame

GenerateQuotesApi ==
    (\E state \in MarketStates, est \in Estimates :
         GenerateQuotesCall(state, est))
    /\ UNCHANGED apiFrame

GenerateLadderQuotesApi ==
    (\E state \in MarketStates, est \in Estimates :
         GenerateLadderQuotesCall(state, est, NumLevels))
    /\ UNCHANGED apiFrame

NextRisk ==
    \/ KillCall
    \/ ResumeCall
    \/ UpdateDailyPnlCall
    \/ ResetDailyPnlCall
    \/ UpdatePositionCall
    \/ CheckQuoteApi
    \/ GenerateQuotesApi
    \/ GenerateLadderQuotesApi

SpecRisk == InitRisk /\ [][NextRisk]_vars

(***************************************************************************)
(* generate_ladder_quotes called with any number of levels.  num_levels is *)
(* a usize, so a caller may ask for none.  lib_arg keeps the arguments of  *)
(* the call: the number of levels asked for and the mid price of the       *)
(* market state, which is the mark of every level's risk check.            *)
(***************************************************************************)
LadderSizes == 0..NumLevels

GenerateLadderQuotesLevels ==
    /\ \E state \in MarketStates, est \in Estimates,
          num_levels \in LadderSizes :
           /\ GenerateLadderQuotesCall(state, est, num_levels)
           /\ lib_arg' = [num_levels |-> num_levels,
                          mark |-> MidPrice(state)]
    /\ lib_call' = "generate_ladder_quotes"
    /\ UNCHANGED <<consumerVars, raceVars, loopVars, order_book, lib_ret,
                   ioVars>>

InitLadder == InitRisk

NextLadder ==
    \/ KillCall
    \/ ResumeCall
    \/ UpdatePositionCall
    \/ GenerateLadderQuotesLevels

SpecLadder == InitLadder /\ [][NextLadder]_vars

(***************************************************************************)
(* The strategy process (mm_app/src/bin/mm_strategy.rs): its main loop,    *)
(* the heartbeat monitor thread (mm_app/src/monitoring.rs) and the         *)
(* collector's heartbeat publisher thread.  The streams are aeron:ipc, so  *)
(* all threads read the one clock of the host.  pc is the main loop's      *)
(* position: "top" before the heartbeat check, "fills" before the          *)
(* non-blocking poll of the fills stream, "receive" while blocked in the   *)
(* market-data receive.                                                    *)
(***************************************************************************)
ClockStepMs == 6000   \* milliseconds per clock advance
MaxClockSteps == 8    \* clock advances
MaxHbInFlight == 1    \* heartbeats published and not yet received
FillQuantity == 10    \* size of a fill, which bounds the position too

HEARTBEAT_INTERVAL_MS == 1000
HEARTBEAT_TIMEOUT_MS == 5000
HEARTBEAT_CHECK_INTERVAL_MS == 2000
RECEIVE_TIMEOUT_MS == 30000
QUOTE_PUBLISH_INTERVAL_MS == 100

\* positions Publication::offer returns: a stream position, NOT_CONNECTED,
\* BACK_PRESSURED
OfferPositions == {0 - 2, 0 - 1, 1}

\* Publisher::publish
Publish(offer_position) ==
    IF offer_position > 0
    THEN [ok |-> TRUE, val |-> TRUE]
    ELSE [ok |-> FALSE, err |-> "BackPressure"]

\* u64::saturating_sub
SaturatingSub(a, b) == IF a >= b THEN a - b ELSE 0

\* is_heartbeat_stale with twice the timeout.
IsHeartbeatStale_DoubleTimeout(last_hb, t, timeout_ms) ==
    SaturatingSub(t, last_hb) > 2 * timeout_ms

\* is_heartbeat_stale, called at time t.
IsHeartbeatStale(last_hb, t, timeout_ms) ==
    SaturatingSub(t, last_hb) > timeout_ms

\* Truncating division by a divisor of either sign.
TruncQuot(a, b) == IF b > 0 THEN TruncDiv(a, b) ELSE TruncDiv(0 - a, 0 - b)

\* impl Mul and impl Div for FixedPoint.
FixedMul(a, b) == TruncDiv(a * b, FixedPointScale)
FixedDiv(a, b) == TruncQuot(a * FixedPointScale, b)

\* apply_fill realizing nothing when the fill crosses or reaches zero.
ApplyFill_NoPnlOnFlip(pos, side, price, quantity) ==
    LET fill_qty == IF side = "Bid" THEN quantity ELSE 0 - quantity
        new_quantity == pos.quantity + fill_qty
    IN  IF (pos.quantity > 0) = (new_quantity > 0)
        THEN [pos EXCEPT !.quantity = new_quantity]
        ELSE [pos EXCEPT !.quantity = new_quantity,
                         !.avg_entry_price = price]

\* apply_fill realizing on the whole fill when the position flips.
ApplyFill_RealizesWholeFill(pos, side, price, quantity) ==
    LET fill_qty == IF side = "Bid" THEN quantity ELSE 0 - quantity
        new_quantity == pos.quantity + fill_qty
    IN  IF pos.quantity = 0
        THEN [pos EXCEPT !.quantity = new_quantity,
                         !.avg_entry_price = price]
        ELSE [pos EXCEPT !.realized_pnl =
                             @ + FixedMul(price - pos.avg_entry_price,
                                          0 - fill_qty),
                         !.quantity = new_quantity,
                         !.avg_entry_price = price]

\* Position::apply_fill
ApplyFill(pos, side, price, quantity) ==
    LET fill_qty == IF side = "Bid" THEN quantity ELSE 0 - quantity
        new_quantity == pos.quantity + fill_qty
    IN  IF pos.quantity = 0
        THEN [pos EXCEPT !.quantity = new_quantity,
                         !.avg_entry_price = price]
        ELSE IF /\ (pos.quantity > 0) = (new_quantity > 0)
                /\ Abs(new_quantity) > Abs(pos.quantity)
        THEN [pos EXCEPT !.avg_entry_price =
                             FixedDiv(FixedMul(pos.avg_entry_price,
                                               pos.quantity)
                                        + FixedMul(price, fill_qty),
                                      new_quantity),
                         !.quantity = new_quantity]
        ELSE IF (pos.quantity > 0) # (new_quantity > 0)
        THEN [pos EXCEPT !.realized_pnl =
                             @ + FixedMul(price - pos.avg_entry_price,
                                          pos.quantity),
                         !.quantity = new_quantity,
                         !.avg_entry_price = price]
        ELSE [pos EXCEPT !.realized_pnl =
                             @ + FixedMul(price - pos.avg_entry_price,
                                          0 - fill_qty),
                         !.quantity = new_quantity]

\* What the loop hands to generate_quotes: the book's best prices and the
\* engine's estimates, one set that passes the risk checks and one that
\* does not.
LoopEstimates ==
    {est \in Estimates :
        /\ est.drift = 0
        /\ est.bid_spread = 1000000 /\ est.ask_spread = 1000000
        /\ est.bid_size = 10 /\ est.ask_size = 10}

loopFrame == <<consumerVars, raceVars, libVars, ioVars>>

\* Time passes: the clock moves on by step, up to limit.
ClockAdvance(step, limit) ==
    /\ clock_ms + step <= limit
    /\ clock_ms' = clock_ms + step

ClockTick ==
    /\ ClockAdvance(ClockStepMs, MaxClockSteps * ClockStepMs)
    /\ UNCHANGED <<hb_stream, hb_last_sent, last_heartbeat_timestamp,
                   hb_received_at, last_heartbeat_check, pc, recv_started,
                   last_quote_publish, orderbook_synchronized>>
    /\ UNCHANGED <<engineVars, loopFrame>>

\* Collector: the heartbeat thread sleeps HEARTBEAT_INTERVAL_MS, then
\* publishes a heartbeat stamped with the current time.
HeartbeatPublish ==
    /\ clock_ms - hb_last_sent >= HEARTBEAT_INTERVAL_MS
    /\ Len(hb_stream) < MaxHbInFlight
    /\ hb_stream' = Append(hb_stream, clock_ms)
    /\ hb_last_sent' = clock_ms
    /\ UNCHANGED <<clock_ms, last_heartbeat_timestamp, hb_received_at,
                   last_heartbeat_check, pc, recv_started,
                   last_quote_publish, orderbook_synchronized>>
    /\ UNCHANGED <<engineVars, loopFrame>>

\* Monitor thread: stores the timestamp carried by the heartbeat received.
HeartbeatMonitorReceive ==
    /\ hb_stream # <<>>
    /\ last_heartbeat_timestamp' = Head(hb_stream)
    /\ hb_received_at' = clock_ms
    /\ hb_stream' = Tail(hb_stream)
    /\ UNCHANGED <<clock_ms, hb_last_sent, last_heartbeat_check, pc,
                   recv_started, last_quote_publish,
                   orderbook_synchronized>>
    /\ UNCHANGED <<engineVars, loopFrame>>

\* Main loop, top: the staleness check, when it is due.
StrategyHeartbeatCheck ==
    /\ pc = "top"
    /\ IF clock_ms - last_heartbeat_check > HEARTBEAT_CHECK_INTERVAL_MS
       THEN /\ IF IsHeartbeatStale(last_heartbeat_timestamp, clock_ms,
                                   HEARTBEAT_TIMEOUT_MS)
               THEN Kill("Heartbeat timeout")
               ELSE UNCHANGED engineVars
            /\ last_heartbeat_check' = clock_ms
       ELSE UNCHANGED <<engineVars, last_heartbeat_check>>
    /\ pc' = "fills"
    /\ UNCHANGED <<clock_ms, hb_stream, hb_last_sent,
                   last_heartbeat_timestamp, hb_received_at, recv_started,
                   last_quote_publish, orderbook_synchronized>>
    /\ UNCHANGED loopFrame

\* Main loop: a fill is pending on the fills stream; it is applied to the
\* position and the loop starts over.  The fills followed here are buys
\* that open a position of one fill.
StrategyOnFill ==
    /\ pc = "fills"
    /\ \E side \in {"Bid"} :
         /\ Abs(ApplyFill(position, side, 100, FillQuantity).quantity)
              <= FillQuantity
         /\ UpdatePosition(ApplyFill(position, side, 100, FillQuantity))
    /\ pc' = "top"
    /\ UNCHANGED <<clock_ms, hb_stream, hb_last_sent,
                   last_heartbeat_timestamp, hb_received_at,
                   last_heartbeat_check, recv_started, last_quote_publish,
                   orderbook_synchronized>>
    /\ UNCHANGED loopFrame

\* Main loop: no fill is pending; the loop blocks in receive().
StrategyBeginReceive ==
    /\ pc = "fills"
    /\ pc' = "receive"
    /\ recv_started' = clock_ms
    /\ UNCHANGED <<clock_ms, hb_stream, hb_last_sent,
                   last_heartbeat_timestamp, hb_received_at,
                   last_heartbeat_check, last_quote_publish,
                   orderbook_synchronized>>
    /\ UNCHANGED <<engineVars, loopFrame>>

\* Main loop: receive() returned a market-data message.  The batch branch
\* is followed here only in what it does to orderbook_synchronized: set
\* when a batch is applied in Synchronized state to a two-sided book,
\* cleared when a resync fetched a new snapshot.
StrategyOnMarketData ==
    /\ pc = "receive"
    /\ \E synchronized \in BOOLEAN : orderbook_synchronized' = synchronized
    /\ pc' = "top"
    /\ UNCHANGED <<clock_ms, hb_stream, hb_last_sent,
                   last_heartbeat_timestamp, hb_received_at,
                   last_heartbeat_check, recv_started, last_quote_publish>>
    /\ UNCHANGED <<engineVars, loopFrame>>

\* Main loop: receive() timed out; publish_quotes runs if the book is
\* synchronized and the publish interval has passed.  publish_quotes offers
\* the quote it generated to the transport; main returns the error of a
\* failed publish (the ? operator) and the process ends.
StrategyOnReceiveTimeout ==
    /\ pc = "receive"
    /\ clock_ms - recv_started > RECEIVE_TIMEOUT_MS
    /\ IF /\ orderbook_synchronized
          /\ clock_ms - last_quote_publish > QUOTE_PUBLISH_INTERVAL_MS
       THEN /\ \E state \in MarketStates, est \in LoopEstimates :
                   GenerateQuotesCall(state, est)
            /\ \E offer_position \in OfferPositions :
                   IF quotes' = <<>> \/ Publish(offer_position).ok
                   THEN /\ last_quote_publish' = clock_ms
                        /\ pc' = "top"
                   ELSE /\ pc' = "exited"
                        /\ UNCHANGED last_quote_publish
       ELSE /\ pc' = "top"
            /\ UNCHANGED <<engineVars, last_quote_publish>>
    /\ UNCHANGED <<clock_ms, hb_stream, hb_last_sent,
                   last_heartbeat_timestamp, hb_received_at,
                   last_heartbeat_check, recv_started,
                   orderbook_synchronized>>
    /\ UNCHANGED loopFrame

InitStrategy == ConsumerIdle /\ RaceIdle /\ EngineIdle /\ LoopIdle /\ LibIdle /\ IoIdle

NextStrategy ==
    \/ ClockTick
    \/ HeartbeatPublish
    \/ HeartbeatMonitorReceive
    \/ StrategyHeartbeatCheck
    \/ StrategyOnFill
    \/ StrategyBeginReceive
    \/ StrategyOnMarketData
    \/ StrategyOnReceiveTimeout

SpecStrategy == InitStrategy /\ [][NextStrategy]_vars

(***************************************************************************)
(* The strategy's main loop with fills that realize profit and loss: one   *)
(* order's worth bought or sold at a high or a low price.  The clock moves *)
(* in steps longer than the receive timeout, so a quote request can follow *)
(* the fills.                                                              *)
(***************************************************************************)
MaxLossTicks == 1     \* clock advances while fills realize PnL
MaxFillPnl == 250000  \* realized PnL followed, in absolute value (2500.0)

FillPrices == {110000, 9000}

DailyLossClockTick ==
    /\ ClockAdvance(RECEIVE_TIMEOUT_MS + ClockStepMs,
                    MaxLossTicks * (RECEIVE_TIMEOUT_MS + ClockStepMs))
    /\ UNCHANGED <<hb_stream, hb_last_sent, last_heartbeat_timestamp,
                   hb_received_at, last_heartbeat_check, pc, recv_started,
                   last_quote_publish, orderbook_synchronized>>
    /\ UNCHANGED <<engineVars, loopFrame>>

\* Main loop: a fill is pending on the fills stream; apply_fill books it
\* and update_position hands the position to the inventory manager.
StrategyOnPricedFill ==
    /\ pc = "fills"
    /\ \E side \in {"Bid", "Ask"}, price \in FillPrices :
         LET filled == ApplyFill(position, side, price, MAX_ORDER_SIZE)
         IN  /\ Abs(filled.quantity) <= MAX_ORDER_SIZE
             /\ Abs(filled.realized_pnl) <= MaxFillPnl
             /\ UpdatePosition(filled)
    /\ pc' = "top"
    /\ UNCHANGED <<clock_ms, hb_stream, hb_last_sent,
                   last_heartbeat_timestamp, hb_received_at,
                   last_heartbeat_check, recv_started, last_quote_publish,
                   orderbook_synchronized>>
    /\ UNCHANGED loopFrame

InitDailyLoss == ConsumerIdle /\ RaceIdle /\ EngineIdle /\ LoopIdle /\ LibIdle /\ IoIdle

NextDailyLoss ==
    \/ DailyLossClockTick
    \/ HeartbeatPublish
    \/ HeartbeatMonitorReceive
    \/ StrategyHeartbeatCheck
    \/ StrategyOnPricedFill
    \/ StrategyBeginReceive
    \/ StrategyOnMarketData
    \/ StrategyOnReceiveTimeout

SpecDailyLoss == InitDailyLoss /\ [][NextDailyLoss]_vars

(***************************************************************************)
(* Order book: any sequence of update_bid, update_ask, apply_batch and     *)
(* spread calls on one OrderBook.  The three updating methods return the   *)
(* unit value.                                                             *)
(***************************************************************************)
MaxBatchLevels == 1   \* levels per side of a batch

BookPrices == {0, 1, 2}

BookQuantities == {0 - 1, 0, 2}

BookLevels == [price : BookPrices, size : BookQuantities]

LevelLists == UNION {[1..n -> BookLevels] : n \in 0..MaxBatchLevels}

BookBatches == [timestamp : {1}, bids : LevelLists, asks : LevelLists]

Unit == [unit |-> TRUE]

bookFrame == <<consumerVars, raceVars, engineVars, loopVars, ioVars>>

OrderBookUpdateBid ==
    /\ \E price \in BookPrices \ {0}, quantity \in BookQuantities :
        /\ order_book' = UpdateBid(order_book, price, quantity)
        /\ lib_arg' = [price |-> price, quantity |-> quantity]
    /\ lib_call' = "update_bid"
    /\ lib_ret' = Unit
    /\ UNCHANGED bookFrame

OrderBookUpdateAsk ==
    /\ \E price \in BookPrices \ {0}, quantity \in BookQuantities :
        /\ order_book' = UpdateAsk(order_book, price, quantity)
        /\ lib_arg' = [price |-> price, quantity |-> quantity]
    /\ lib_call' = "update_ask"
    /\ lib_ret' = Unit
    /\ UNCHANGED bookFrame

OrderBookApplyBatchCall ==
    /\ \E b \in BookBatches :
        /\ order_book' = OrderBookApplyBatch(order_book, b)
        /\ lib_arg' = [timestamp |-> b.timestamp]
    /\ lib_call' = "apply_batch"
    /\ lib_ret' = Unit
    /\ UNCHANGED bookFrame

OrderBookSpread ==
    /\ lib_call' = "spread"
    /\ lib_arg' = NoArg
    /\ lib_ret' = BookSpread(order_book)
    /\ UNCHANGED <<order_book, bookFrame>>

InitBook ==
    /\ ConsumerIdle /\ RaceIdle /\ EngineIdle /\ LoopIdle /\ LibIdle /\ IoIdle

NextBook ==
    \/ OrderBookUpdateBid
    \/ OrderBookUpdateAsk
    \/ OrderBookApplyBatchCall
    \/ OrderBookSpread

SpecBook == InitBook /\ [][NextBook]_vars

(***************************************************************************)
(* Part 5: the binary codec of mm_binary.  A buffer is a sequence of bytes *)
(* (0..255).                                                               *)
(***************************************************************************)
CRC32C_POLYNOMIAL == 517762881     \* 0x1EDC6F41

\* A u32 is the pair of its 16-bit halves.
U32Of(n) == [hi |-> n \div 65536, lo |-> n % 65536]

RECURSIVE Xor16(_, _, _)
Xor16(a, b, bits) ==
    IF bits = 0 THEN 0
    ELSE ((a + b) % 2) + 2 * Xor16(a \div 2, b \div 2, bits - 1)

Xor32(a, b) == [hi |-> Xor16(a.hi, b.hi, 16), lo |-> Xor16(a.lo, b.lo, 16)]

\* a >> k, for k up to 16
Shr32(a, k) ==
    [hi |-> a.hi \div (2 ^ k),
     lo |-> (a.lo \div (2 ^ k)) + (a.hi % (2 ^ k)) * (2 ^ (16 - k))]

Not32(a) == [hi |-> 65535 - a.hi, lo |-> 65535 - a.lo]

LowByte(a) == a.lo % 256

RECURSIVE Reverse16(_, _)
Reverse16(a, bits) ==
    IF bits = 0 THEN 0
    ELSE (a % 2) * (2 ^ (bits - 1)) + Reverse16(a \div 2, bits - 1)

\* The polynomial the SSE4.2 crc32 instruction divides by, in the bit order
\* of the shift-right algorithm: CRC32C_POLYNOMIAL with its bits reversed.
Sse42Polynomial ==
    [hi |-> Reverse16(U32Of(CRC32C_POLYNOMIAL).lo, 16),
     lo |-> Reverse16(U32Of(CRC32C_POLYNOMIAL).hi, 16)]

RECURSIVE Crc32cShift(_, _, _)
Crc32cShift(crc, poly, rounds) ==
    IF rounds = 0 THEN crc
    ELSE Crc32cShift(IF crc.lo % 2 = 1 THEN Xor32(Shr32(crc, 1), poly)
                     ELSE Shr32(crc, 1),
                     poly, rounds - 1)

\* generate_crc32c_table
Crc32cTable ==
    [i \in 0..255 |-> Crc32cShift(U32Of(i), U32Of(CRC32C_POLYNOMIAL), 8)]

\* What _mm_crc32_u8 adds to the shifted state, per low byte.
Sse42Table == [i \in 0..255 |-> Crc32cShift(U32Of(i), Sse42Polynomial, 8)]

RECURSIVE Crc32cLoop(_, _, _)
Crc32cLoop(table, crc, data) ==
    IF data = <<>> THEN crc
    ELSE LET index == LowByte(Xor32(crc, U32Of(Head(data))))
         IN IF index \in DOMAIN table
            THEN Crc32cLoop(table, Xor32(Shr32(crc, 8), table[index]),
                            Tail(data))
            ELSE crc

SoftwareCrc32c(data) ==
    Not32(Crc32cLoop(Crc32cTable, Not32(U32Of(0)), data))

HardwareCrc32cX86(data) ==
    Not32(Crc32cLoop(Sse42Table, Not32(U32Of(0)), data))

\* calculate_crc32c: the hardware path on x86_64 hosts with SSE4.2, the
\* software path everywhere else.
CalculateCrc32c(host, data) ==
    IF host = "x86_64+sse4.2" THEN HardwareCrc32cX86(data)
    ELSE SoftwareCrc32c(data)

RECURSIVE LeBytes(_, _)
LeBytes(v, n) ==
    IF n = 0 THEN <<>> ELSE <<v % 256>> \o LeBytes(v \div 256, n - 1)

RECURSIVE FromLeBytes(_)
FromLeBytes(bytes) ==
    IF bytes = <<>> THEN 0 ELSE Head(bytes) + 256 * FromLeBytes(Tail(bytes))

U32ToLeBytes(a) ==
    <<a.lo % 256, a.lo \div 256, a.hi % 256, a.hi \div 256>>

U32FromLeBytes(bytes) ==
    [hi |-> bytes[3] + 256 * bytes[4], lo |-> bytes[1] + 256 * bytes[2]]

ByteBits(b) == [j \in 0..7 |-> (b \div (2 ^ j)) % 2]

\* i64::to_le_bytes, two's complement.
I64ToLeBytes(v) ==
    IF v >= 0 THEN LeBytes(v, 8)
    ELSE [k \in 1..8 |-> 255 - LeBytes(0 - v - 1, 8)[k]]

\* u64::to_le_bytes and u64::from_le_bytes on a word given by its bits.
WordToLeBytes(word) ==
    [k \in 1..8 |->
        word[8 * (k - 1)] + 2 * word[8 * (k - 1) + 1]
        + 4 * word[8 * (k - 1) + 2] + 8 * word[8 * (k - 1) + 3]
        + 16 * word[8 * (k - 1) + 4] + 32 * word[8 * (k - 1) + 5]
        + 64 * word[8 * (k - 1) + 6] + 128 * word[8 * (k - 1) + 7]]

WordFromLeBytes(bytes) ==
    [i \in 0..63 |-> ByteBits(bytes[(i \div 8) + 1])[i % 8]]

I64FromLeBytes(bytes) ==
    IF bytes[8] < 128 THEN FromLeBytes(bytes)
    ELSE 0 - FromLeBytes([k \in 1..8 |-> 255 - bytes[k]]) - 1

Slice(bytes, from, to) == SubSeq(bytes, from + 1, to)

Ok(x) == [ok |-> TRUE, val |-> x]

Err(e) == [ok |-> FALSE, err |-> e]

HEADER_SIZE == 32

MESSAGE_TYPE == 3

PRICE_LEVEL_SIZE == 16

PriceLevelNew(price, size) == [price |-> price, size |-> size]

PriceLevelToBytes(level) ==
    I64ToLeBytes(level.price) \o I64ToLeBytes(level.size)

PriceLevelFromBytes(bytes) ==
    IF Len(bytes) < PRICE_LEVEL_SIZE THEN Err("BufferTooSmall")
    ELSE Ok([price |-> I64FromLeBytes(Slice(bytes, 0, 8)),
             size |-> I64FromLeBytes(Slice(bytes, 8, 16))])

\* OrderBookBatchMessage::new; exchange, update_type and encoding arrive as
\* the u8 value of their enum.
OrderBookBatchNew(exchange, update_type, symbol, encoding, timestamp) ==
    [header |-> [header |-> MESSAGE_TYPE, exchange |-> exchange,
                 update_type |-> update_type, encoding |-> encoding,
                 num_bids |-> 0, num_asks |-> 0,
                 symbol_low |-> symbol.low, symbol_high |-> symbol.high,
                 timestamp |-> timestamp],
     bids |-> <<>>, asks |-> <<>>]

AddBid(msg, price, size) ==
    [msg EXCEPT !.bids = Append(@, PriceLevelNew(price, size))]

AddAsk(msg, price, size) ==
    [msg EXCEPT !.asks = Append(@, PriceLevelNew(price, size))]

RECURSIVE LevelsToBytes(_)
LevelsToBytes(levels) ==
    IF levels = <<>> THEN <<>>
    ELSE PriceLevelToBytes(Head(levels)) \o LevelsToBytes(Tail(levels))

\* OrderBookBatchMessage::to_bytes
ToBytes(host, msg) ==
    LET bytes == <<msg.header.header, msg.header.exchange,
                   msg.header.update_type, msg.header.encoding>>
                 \o LeBytes(Len(msg.bids) % (2 ^ 16), 2)
                 \o LeBytes(Len(msg.asks) % (2 ^ 16), 2)
                 \o WordToLeBytes(msg.header.symbol_low)
                 \o WordToLeBytes(msg.header.symbol_high)
                 \o LeBytes(msg.header.timestamp, 8)
                 \o LevelsToBytes(msg.bids)
                 \o LevelsToBytes(msg.asks)
    IN bytes \o U32ToLeBytes(CalculateCrc32c(host, bytes))

\* One parsing loop of from_bytes: count levels read from offset on.  The
\* slice bytes[offset..] panics when offset is past the end of the buffer.
RECURSIVE ParseLevels(_, _, _, _)
ParseLevels(bytes, offset, count, levels) ==
    IF count = 0 THEN Ok([levels |-> levels, offset |-> offset])
    ELSE IF offset > Len(bytes) THEN Err("panic")
    ELSE LET level == PriceLevelFromBytes(Slice(bytes, offset, Len(bytes)))
         IN IF ~level.ok THEN level
            ELSE ParseLevels(bytes, offset + PRICE_LEVEL_SIZE, count - 1,
                             Append(levels, level.val))

\* OrderBookBatchMessage::from_bytes
FromBytes(host, bytes) ==
    IF Len(bytes) < HEADER_SIZE + 4 THEN Err("BufferTooSmall")
    ELSE LET crc_offset == Len(bytes) - 4
             expected_crc ==
                 U32FromLeBytes(Slice(bytes, crc_offset, Len(bytes)))
             actual_crc == CalculateCrc32c(host, Slice(bytes, 0, crc_offset))
         IN IF expected_crc # actual_crc THEN Err("InvalidChecksum")
            ELSE IF bytes[1] # MESSAGE_TYPE THEN Err("InvalidMessageType")
            ELSE LET header ==
                         [header |-> bytes[1], exchange |-> bytes[2],
                          update_type |-> bytes[3], encoding |-> bytes[4],
                          num_bids |-> FromLeBytes(Slice(bytes, 4, 6)),
                          num_asks |-> FromLeBytes(Slice(bytes, 6, 8)),
                          symbol_low |-> WordFromLeBytes(Slice(bytes, 8, 16)),
                          symbol_high |-> WordFromLeBytes(Slice(bytes, 16, 24)),
                          timestamp |-> FromLeBytes(Slice(bytes, 24, 32))]
                     bids == ParseLevels(bytes, HEADER_SIZE, header.num_bids,
                                         <<>>)
                 IN IF ~bids.ok THEN bids
                    ELSE LET asks == ParseLevels(bytes, bids.val.offset,
                                                 header.num_asks, <<>>)
                         IN IF ~asks.ok THEN asks
                            ELSE Ok([header |-> header,
                                     bids |-> bids.val.levels,
                                     asks |-> asks.val.levels])

(***************************************************************************)
(* HeartbeatMessage, one of the four fixed-size messages of messages.rs;   *)
(* the other three are built and decoded by the same steps.  The struct is *)
(* repr(C, align(16)): 40 bytes of fields rounded up to 48, of which       *)
(* to_bytes copies the first SIZE = 32.                                    *)
(***************************************************************************)
HEARTBEAT_SIZE == 32

HeartbeatStructSize == 48

HeartbeatCrcSpan == 24

\* The first 24 bytes of the struct: header, _pad, timestamp, sequence.
HeartbeatFields(header, timestamp, sequence) ==
    <<header>> \o LeBytes(0, 7) \o LeBytes(timestamp, 8)
    \o LeBytes(sequence, 8)

\* HeartbeatMessage::new; the header 2 << 7 is 0 in a u8.
HeartbeatNew(host, timestamp, sequence) ==
    LET header == (2 * (2 ^ 7)) % 256
    IN [header |-> header, timestamp |-> timestamp, sequence |-> sequence,
        crc32 |-> CalculateCrc32c(host, HeartbeatFields(header, timestamp,
                                                        sequence))]

HeartbeatToBytes(msg) ==
    HeartbeatFields(msg.header, msg.timestamp, msg.sequence)
    \o U32ToLeBytes(msg.crc32) \o LeBytes(0, 4)

\* HeartbeatMessage::from_bytes on a buffer whose address is or is not a
\* multiple of 16.  The decoded value is a copy of HeartbeatStructSize bytes
\* starting at the buffer: reads_past_end says that the buffer is shorter.
HeartbeatFromBytes(host, bytes, aligned) ==
    IF Len(bytes) < HEARTBEAT_SIZE THEN Err("InvalidLength")
    ELSE IF ~aligned THEN Err("InvalidAlignment")
    ELSE LET crc32 == U32FromLeBytes(Slice(bytes, 24, 28))
             calculated ==
                 CalculateCrc32c(host, Slice(bytes, 0, HeartbeatCrcSpan))
         IN IF calculated # crc32 THEN Err("InvalidChecksum")
            ELSE [ok |-> TRUE,
                  val |-> [header |-> bytes[1],
                           timestamp |-> FromLeBytes(Slice(bytes, 8, 16)),
                           sequence |-> FromLeBytes(Slice(bytes, 16, 24)),
                           crc32 |-> crc32],
                  reads_past_end |-> Len(bytes) < HeartbeatStructSize]

(***************************************************************************)
(* parse_json_decimal_to_fixed_point.  Input bytes are ASCII codes.  The   *)
(* i64 accumulator is kept as the sequence of its decimal digits, most     *)
(* significant first and without leading zeros, so that it can be compared *)
(* with i64::MAX exactly.  An i64 operation whose result does not fit is   *)
(* reported as "overflow": the build with overflow checks panics there,    *)
(* the build without them goes on with the wrapped value.                  *)
(***************************************************************************)
DECIMAL_PLACES == 8

I64MaxDigits == <<9, 2, 2, 3, 3, 7, 2, 0, 3, 6, 8, 5, 4, 7, 7, 5, 8, 0, 7>>

RECURSIVE DigitsGreater(_, _)
DigitsGreater(a, b) ==
    IF Len(a) # Len(b) THEN Len(a) > Len(b)
    ELSE IF a = <<>> THEN FALSE
    ELSE IF Head(a) # Head(b) THEN Head(a) > Head(b)
    ELSE DigitsGreater(Tail(a), Tail(b))

FitsI64(digits) == ~DigitsGreater(digits, I64MaxDigits)

\* result * 10 + digit
PushDigit(digits, digit) ==
    IF digits = <<>> /\ digit = 0 THEN <<>> ELSE Append(digits, digit)

RECURSIVE TimesPow10(_, _)
TimesPow10(digits, k) ==
    IF k = 0 \/ digits = <<>> THEN digits
    ELSE TimesPow10(Append(digits, 0), k - 1)

DivPow10(digits, k) ==
    IF k >= Len(digits) THEN <<>> ELSE SubSeq(digits, 1, Len(digits) - k)

\* 10i64.pow(k) fits an i64 up to k = 18.
Pow10FitsI64(k) == k <= 18

\* The while loop: pos is 0-based; st holds result and decimal_pos.
RECURSIVE ParseLoop(_, _, _, _)
ParseLoop(bytes, pos, result, decimal_pos) ==
    IF pos >= Len(bytes)
    THEN Ok([result |-> result, decimal_pos |-> decimal_pos])
    ELSE LET b == bytes[pos + 1]
         IN IF b >= 48 /\ b <= 57
            THEN IF FitsI64(PushDigit(result, b - 48))
                 THEN ParseLoop(bytes, pos + 1, PushDigit(result, b - 48),
                                decimal_pos)
                 ELSE Err("overflow")
            ELSE IF b = 46
            THEN IF decimal_pos.some THEN Err("InvalidHeader")
                 ELSE ParseLoop(bytes, pos + 1, result, Some(pos))
            ELSE Err("InvalidHeader")

ParseJsonDecimalToFixedPoint(bytes) ==
    IF bytes = <<>> THEN Err("InvalidLength")
    ELSE LET negative == bytes[1] = 45
             parsed == ParseLoop(bytes, IF negative THEN 1 ELSE 0, <<>>, None)
         IN IF ~parsed.ok THEN parsed
            ELSE LET result == parsed.val.result
                     decimals_read ==
                         IF parsed.val.decimal_pos.some
                         THEN Len(bytes) - parsed.val.decimal_pos.val - 1
                         ELSE 0
                 IN IF decimals_read < DECIMAL_PLACES
                    THEN IF FitsI64(TimesPow10(result,
                                    DECIMAL_PLACES - decimals_read))
                         THEN Ok([negative |-> negative,
                                  digits |-> TimesPow10(result,
                                      DECIMAL_PLACES - decimals_read)])
                         ELSE Err("overflow")
                    ELSE IF decimals_read > DECIMAL_PLACES
                    THEN IF Pow10FitsI64(decimals_read - DECIMAL_PLACES)
                         THEN Ok([negative |-> negative,
                                  digits |-> DivPow10(result,
                                      decimals_read - DECIMAL_PLACES)])
                         ELSE Err("overflow")
                    ELSE Ok([negative |-> negative, digits |-> result])

(***************************************************************************)
(* CompressedString.  A string is a sequence of ASCII codes; low and high  *)
(* are u64 words, each the function of its 64 bits, bit 0 the lowest.      *)
(***************************************************************************)
U64 == 0..63

CompressedStringNew == [low |-> [i \in U64 |-> 0], high |-> [i \in U64 |-> 0]]

\* word | ((value as u64) << shift), for a value below 256 and shift < 64
OrShl(word, value, shift) ==
    [i \in U64 |->
        IF word[i] = 1 THEN 1
        ELSE IF i >= shift /\ i - shift <= 7
        THEN (value \div (2 ^ (i - shift))) % 2
        ELSE 0]

RECURSIVE BitsValue(_, _, _, _)
\* sum of word[from + j] * 2^(to_bit + j) for j in 0..n-1, bits past 63 are 0
BitsValue(word, from, to_bit, n) ==
    IF n = 0 THEN 0
    ELSE (IF from <= 63 THEN word[from] * (2 ^ to_bit) ELSE 0)
         + BitsValue(word, from + 1, to_bit + 1, n - 1)

\* (word >> shift) & ((1 << n) - 1)
ShrMask(word, shift, n) == BitsValue(word, shift, 0, n)

\* (word << k) & ((1 << n) - 1), for k <= n
ShlMask(word, k, n) == BitsValue(word, 0, k, n - k)

\* The three-way placement shared by the four encoders.
PlaceValue(cs, value, bit_pos, width) ==
    IF bit_pos + width <= 64
    THEN [cs EXCEPT !.low = OrShl(cs.low, value, bit_pos)]
    ELSE IF bit_pos >= 64
    THEN [cs EXCEPT !.high = OrShl(cs.high, value, bit_pos - 64)]
    ELSE [cs EXCEPT !.low = OrShl(cs.low, value, bit_pos),
                    !.high = OrShl(cs.high, value \div (2 ^ (64 - bit_pos)),
                                   0)]

RECURSIVE PlaceValues(_, _, _, _)
PlaceValues(cs, values, bit_pos, width) ==
    IF values = <<>> THEN cs
    ELSE PlaceValues(PlaceValue(cs, Head(values), bit_pos, width),
                     Tail(values), bit_pos + width, width)

IsDigit(ch) == ch >= 48 /\ ch <= 57

IsUpper(ch) == ch >= 65 /\ ch <= 90

IsHexDigit(ch) ==
    IsDigit(ch) \/ (ch >= 65 /\ ch <= 70) \/ (ch >= 97 /\ ch <= 102)

EncodeHex4bit(str) ==
    IF Len(str) > 32 THEN Err("StringTooLong")
    ELSE IF \E i \in 1..Len(str) : ~IsHexDigit(str[i])
    THEN Err("InvalidCharacter")
    ELSE Ok(PlaceValues(CompressedStringNew,
                [i \in 1..Len(str) |->
                    IF IsDigit(str[i]) THEN (str[i] - 48) + 1
                    ELSE IF str[i] <= 70 THEN (str[i] - 65) + 11
                    ELSE (str[i] - 97) + 11],
                0, 4))

EncodeAlphabetic5bit(str) ==
    IF Len(str) > 25 THEN Err("StringTooLong")
    ELSE IF \E i \in 1..Len(str) : ~IsUpper(str[i])
    THEN Err("InvalidCharacter")
    ELSE Ok(PlaceValues(CompressedStringNew,
                [i \in 1..Len(str) |-> (str[i] - 65) + 1], 0, 5))

EncodeAlphanumeric6bit(str) ==
    IF Len(str) > 21 THEN Err("StringTooLong")
    ELSE IF \E i \in 1..Len(str) : ~IsUpper(str[i]) /\ ~IsDigit(str[i])
    THEN Err("InvalidCharacter")
    ELSE Ok(PlaceValues(CompressedStringNew,
                [i \in 1..Len(str) |->
                    IF IsUpper(str[i]) THEN str[i] - 65
                    ELSE (str[i] - 48) + 26],
                0, 6))

EncodeAscii7bit(str) ==
    IF Len(str) > 18 THEN Err("StringTooLong")
    ELSE IF \E i \in 1..Len(str) : str[i] > 127
    THEN Err("InvalidCharacter")
    ELSE Ok(PlaceValues(CompressedStringNew, str, 0, 7))

\* CompressedString::from_str
FromStr(str) ==
    IF str = <<>>
    THEN Ok([cs |-> CompressedStringNew, scheme |-> "Hex4Bit"])
    ELSE IF EncodeHex4bit(str).ok
    THEN Ok([cs |-> EncodeHex4bit(str).val, scheme |-> "Hex4Bit"])
    ELSE IF EncodeAlphabetic5bit(str).ok
    THEN Ok([cs |-> EncodeAlphabetic5bit(str).val,
             scheme |-> "Alphabetic5Bit"])
    ELSE IF EncodeAlphanumeric6bit(str).ok
    THEN Ok([cs |-> EncodeAlphanumeric6bit(str).val,
             scheme |-> "AlphaNumeric6Bit"])
    ELSE IF EncodeAscii7bit(str).ok
    THEN Ok([cs |-> EncodeAscii7bit(str).val, scheme |-> "Ascii7Bit"])
    ELSE Err("StringTooLong")

\* The value read at bit_pos by the 5, 6 and 7 bit decoders.
ReadValue(cs, bit_pos, width) ==
    IF bit_pos < 64
    THEN IF bit_pos > 64 - width
         THEN LET overflow_bits == (bit_pos + width) - 64
                  low_part == ShrMask(cs.low, bit_pos, width)
                  high_part == ShlMask(cs.high, width - overflow_bits, width)
              IN low_part + high_part
         ELSE ShrMask(cs.low, bit_pos, width)
    ELSE ShrMask(cs.high, bit_pos - 64, width)

RECURSIVE DecodeHex4bitLoop(_, _, _)
DecodeHex4bitLoop(cs, bit_pos, result) ==
    IF bit_pos >= 128 THEN result
    ELSE LET value == IF bit_pos < 64 THEN ShrMask(cs.low, bit_pos, 4)
                      ELSE ShrMask(cs.high, bit_pos - 64, 4)
         IN IF value = 0 THEN result
            ELSE IF value <= 10
            THEN DecodeHex4bitLoop(cs, bit_pos + 4,
                                   Append(result, 48 + value - 1))
            ELSE DecodeHex4bitLoop(cs, bit_pos + 4,
                                   Append(result, 65 + value - 11))

DecodeHex4bit(cs) == DecodeHex4bitLoop(cs, 0, <<>>)

RECURSIVE DecodeAlphabetic5bitLoop(_, _, _)
DecodeAlphabetic5bitLoop(cs, bit_pos, result) ==
    IF bit_pos >= 128 THEN result
    ELSE LET value == ReadValue(cs, bit_pos, 5)
         IN IF value = 0 \/ value > 26 THEN result
            ELSE DecodeAlphabetic5bitLoop(cs, bit_pos + 5,
                                          Append(result, 65 + value - 1))

DecodeAlphabetic5bit(cs) == DecodeAlphabetic5bitLoop(cs, 0, <<>>)

RECURSIVE DecodeAlphanumeric6bitLoop(_, _, _, _)
DecodeAlphanumeric6bitLoop(cs, bit_pos, result, consecutive_a_count) ==
    IF bit_pos >= 128 THEN result
    ELSE LET value == ReadValue(cs, bit_pos, 6)
             ch == IF value < 26 THEN 65 + value ELSE 48 + value - 26
         IN IF value >= 36 THEN result
            ELSE IF value = 0
            THEN IF consecutive_a_count + 1 >= 3
                 THEN SubSeq(result, 1, Len(result) - consecutive_a_count)
                 ELSE DecodeAlphanumeric6bitLoop(cs, bit_pos + 6,
                          Append(result, ch), consecutive_a_count + 1)
            ELSE DecodeAlphanumeric6bitLoop(cs, bit_pos + 6,
                                            Append(result, ch), 0)

DecodeAlphanumeric6bit(cs) == DecodeAlphanumeric6bitLoop(cs, 0, <<>>, 0)

RECURSIVE DecodeAscii7bitLoop(_, _, _)
DecodeAscii7bitLoop(cs, bit_pos, result) ==
    IF bit_pos >= 128 THEN result
    ELSE LET value == ReadValue(cs, bit_pos, 7)
         IN IF value = 0 \/ value > 127 THEN result
            ELSE DecodeAscii7bitLoop(cs, bit_pos + 7, Append(result, value))

DecodeAscii7bit(cs) == DecodeAscii7bitLoop(cs, 0, <<>>)

\* CompressedString::decode
Decode(cs, scheme) ==
    IF scheme = "Hex4Bit" THEN DecodeHex4bit(cs)
    ELSE IF scheme = "Alphabetic5Bit" THEN DecodeAlphabetic5bit(cs)
    ELSE IF scheme = "AlphaNumeric6Bit" THEN DecodeAlphanumeric6bit(cs)
    ELSE DecodeAscii7bit(cs)

(***************************************************************************)
(* Codec: each behaviour takes one input (a batch message, a heartbeat, a  *)
(* decimal string or a symbol) and runs it through the encoder and the     *)
(* decoder, with an optional single-bit corruption of the carried CRC in   *)
(* between.  The input stays in lib_arg.                                   *)
(***************************************************************************)
MaxCodecLevels == 1   \* levels per side of an encoded batch
MaxDigits == 12       \* longest run of digits handed to the decimal parser
MaxSymbolLen == 2     \* symbols are all strings up to this length, and longer runs

Hosts == {"x86_64+sse4.2", "other"}

Timestamps == {1, 70000}

RECURSIVE AddBids(_, _)
AddBids(msg, levels) ==
    IF levels = <<>> THEN msg
    ELSE AddBids(AddBid(msg, Head(levels).price, Head(levels).size),
                 Tail(levels))

RECURSIVE AddAsks(_, _)
AddAsks(msg, levels) ==
    IF levels = <<>> THEN msg
    ELSE AddAsks(AddAsk(msg, Head(levels).price, Head(levels).size),
                 Tail(levels))

CodecLevels == {PriceLevelNew(100, 2), PriceLevelNew(0 - 1, 300)}

CodecLevelLists == UNION {[1..n -> CodecLevels] : n \in 0..MaxCodecLevels}

\* "BTC", which from_str encodes as Alphabetic5Bit (scheme 1)
BatchSymbol == FromStr(<<66, 84, 67>>).val.cs

BatchInputs ==
    {[kind |-> "batch", host |-> h,
      msg |-> AddAsks(AddBids(OrderBookBatchNew(e, 1, BatchSymbol, 1, t), b),
                      a)] :
        h \in Hosts, e \in {0, 1}, t \in Timestamps,
        b \in CodecLevelLists, a \in CodecLevelLists}

HeartbeatInputs ==
    [kind : {"heartbeat"}, host : Hosts, timestamp : Timestamps,
     sequence : {0, 258}]

Repeat(ch, n) == [i \in 1..n |-> ch]

DecimalTails ==
    {<<>>, <<46>>, <<46, 53>>, <<46, 46>>, <<120>>,
     <<46>> \o Repeat(48, DECIMAL_PLACES + 1),
     <<46>> \o Repeat(48, DECIMAL_PLACES + 19)}

DecimalInputs ==
    {[kind |-> "decimal", bytes |-> sign \o Repeat(d, n) \o tail] :
        sign \in {<<>>, <<45>>}, d \in {49, 57}, n \in 0..MaxDigits,
        tail \in DecimalTails}

\* '-', '0', '9', 'A', 'F', 'G', 'Z', 'a'
SymbolAlphabet == {45, 48, 57, 65, 70, 71, 90, 97}

SymbolInputs ==
    {[kind |-> "symbol", str |-> str] :
        str \in (UNION {[1..n -> SymbolAlphabet] : n \in 0..MaxSymbolLen})
                \cup {Repeat(ch, n) : ch \in {45, 49, 66, 71},
                                      n \in {13, 18, 21, 25, 32}}}

CodecInputs ==
    BatchInputs \cup HeartbeatInputs \cup DecimalInputs \cup SymbolInputs

FlipBit(bytes, offset, bit) ==
    [bytes EXCEPT ![offset + (bit \div 8) + 1] =
        IF ByteBits(@)[bit % 8] = 1 THEN @ - 2 ^ (bit % 8)
        ELSE @ + 2 ^ (bit % 8)]

codecFrame == <<consumerVars, raceVars, engineVars, loopVars, order_book,
                lib_arg, ioVars>>

BatchToBytes ==
    /\ lib_call = "input" /\ lib_arg.kind = "batch"
    /\ lib_call' = "to_bytes"
    /\ lib_ret' = [wire |-> ToBytes(lib_arg.host, lib_arg.msg),
                   flipped |-> FALSE]
    /\ UNCHANGED codecFrame

HeartbeatToBytesCall ==
    /\ lib_call = "input" /\ lib_arg.kind = "heartbeat"
    /\ lib_call' = "to_bytes"
    /\ lib_ret' = [wire |-> HeartbeatToBytes(
                       HeartbeatNew(lib_arg.host, lib_arg.timestamp,
                                    lib_arg.sequence)),
                   flipped |-> FALSE]
    /\ UNCHANGED codecFrame

\* The transport flips one bit of the CRC the message carries: its last four
\* bytes in a batch, bytes 24..27 in a heartbeat.
FlipCrcBit ==
    /\ lib_call = "to_bytes"
    /\ \E bit \in 0..31 :
        lib_ret' = [wire |-> FlipBit(lib_ret.wire,
                                     IF lib_arg.kind = "batch"
                                     THEN Len(lib_ret.wire) - 4
                                     ELSE HeartbeatCrcSpan,
                                     bit),
                    flipped |-> TRUE]
    /\ lib_call' = "corrupt"
    /\ UNCHANGED codecFrame

BatchFromBytes ==
    /\ lib_call \in {"to_bytes", "corrupt"} /\ lib_arg.kind = "batch"
    /\ lib_call' = "from_bytes"
    /\ \E aligned \in BOOLEAN :
        lib_ret' = [result |-> FromBytes(lib_arg.host, lib_ret.wire),
                    flipped |-> lib_ret.flipped, aligned |-> aligned]
    /\ UNCHANGED codecFrame

HeartbeatFromBytesCall ==
    /\ lib_call \in {"to_bytes", "corrupt"} /\ lib_arg.kind = "heartbeat"
    /\ lib_call' = "from_bytes"
    /\ \E aligned \in BOOLEAN :
        lib_ret' = [result |-> HeartbeatFromBytes(lib_arg.host, lib_ret.wire,
                                                  aligned),
                    flipped |-> lib_ret.flipped, aligned |-> aligned]
    /\ UNCHANGED codecFrame

ParseDecimalCall ==
    /\ lib_call = "input" /\ lib_arg.kind = "decimal"
    /\ lib_call' = "parse_json_decimal_to_fixed_point"
    /\ lib_ret' = ParseJsonDecimalToFixedPoint(lib_arg.bytes)
    /\ UNCHANGED codecFrame

SymbolFromStr ==
    /\ lib_call = "input" /\ lib_arg.kind = "symbol"
    /\ lib_call' = "from_str"
    /\ lib_ret' = FromStr(lib_arg.str)
    /\ UNCHANGED codecFrame

SymbolDecode ==
    /\ lib_call = "from_str" /\ lib_ret.ok
    /\ lib_call' = "decode"
    /\ lib_ret' = [scheme |-> lib_ret.val.scheme,
                   decoded |-> Decode(lib_ret.val.cs, lib_ret.val.scheme)]
    /\ UNCHANGED codecFrame

InitCodec ==
    /\ ConsumerIdle /\ RaceIdle /\ EngineIdle /\ LoopIdle /\ IoIdle
    /\ order_book = OrderBookNew
    /\ lib_call = "input"
    /\ lib_arg \in CodecInputs
    /\ lib_ret = NoArg

NextCodec ==
    \/ BatchToBytes
    \/ HeartbeatToBytesCall
    \/ FlipCrcBit
    \/ BatchFromBytes
    \/ HeartbeatFromBytesCall
    \/ ParseDecimalCall
    \/ SymbolFromStr
    \/ SymbolDecode

SpecCodec == InitCodec /\ [][NextCodec]_vars

(***************************************************************************)
(* Part 6: the publisher thread of mm_app/src/publisher_helpers.rs.  The   *)
(* producers of a process enqueue encoded messages on a channel; the       *)
(* thread takes them one at a time and offers each to the transport,       *)
(* retrying under back-pressure.  A message is the number of its enqueue.  *)
(***************************************************************************)
MAX_RETRIES == 100

MaxMessages == 3

Backoff_Linear(count) == 10 * (1 + (IF count < 5 THEN count ELSE 5))

\* Duration::from_micros(10 * 2u64.pow(retry_count.min(5)))
Backoff(count) == 10 * 2 ^ (IF count < 5 THEN count ELSE 5)

LogOffer(m) ==
    IF offered # <<>> /\ offered[Len(offered)] = m
    THEN offered
    ELSE Append(offered, m)

pubFrame == <<consumerVars, raceVars, engineVars, loopVars, libVars, subVars,
              simVars, extVars>>

\* a producer: tx.send(bytes)
ChannelSend ==
    /\ sent < MaxMessages
    /\ sent' = sent + 1
    /\ rx' = Append(rx, sent + 1)
    /\ UNCHANGED <<pub_pc, msg_bytes, retry_count, sleep_us, offered,
                   publication, dropped, pubFrame>>

\* rx.recv() and the first publish of the message
PublisherRecv ==
    /\ pub_pc = "recv"
    /\ rx # <<>>
    /\ rx' = Tail(rx)
    /\ msg_bytes' = Head(rx)
    /\ offered' = LogOffer(Head(rx))
    /\ retry_count' = 0
    /\ sleep_us' = 0
    /\ \E offer_position \in OfferPositions :
         IF Publish(offer_position).ok
         THEN /\ publication' = Append(publication, Head(rx))
              /\ pub_pc' = "recv"
         ELSE /\ pub_pc' = "retry"
              /\ UNCHANGED publication
    /\ UNCHANGED <<sent, dropped, pubFrame>>

PublisherRetry_Requeue ==
    /\ pub_pc = "retry"
    /\ sleep_us' = Backoff(retry_count)
    /\ rx' = Append(rx, msg_bytes)
    /\ pub_pc' = "recv"
    /\ UNCHANGED <<sent, msg_bytes, retry_count, offered, publication,
                   dropped, pubFrame>>

\* one turn of the retry loop: the sleep, then the publish
PublisherRetry ==
    /\ pub_pc = "retry"
    /\ sleep_us' = Backoff(retry_count)
    /\ offered' = LogOffer(msg_bytes)
    /\ \E offer_position \in OfferPositions :
         IF Publish(offer_position).ok
         THEN /\ publication' = Append(publication, msg_bytes)
              /\ pub_pc' = "recv"
              /\ UNCHANGED <<retry_count, dropped>>
         ELSE IF retry_count < MAX_RETRIES
         THEN /\ retry_count' = retry_count + 1
              /\ UNCHANGED <<pub_pc, publication, dropped>>
         ELSE /\ dropped' = dropped \cup {msg_bytes}
              /\ pub_pc' = "recv"
              /\ UNCHANGED <<retry_count, publication>>
    /\ UNCHANGED <<rx, sent, msg_bytes, pubFrame>>

InitPublisher ==
    ConsumerIdle /\ RaceIdle /\ EngineIdle /\ LoopIdle /\ LibIdle /\ IoIdle

NextPublisher ==
    \/ ChannelSend
    \/ PublisherRecv
    \/ PublisherRetry

SpecPublisher ==
    InitPublisher /\ [][NextPublisher]_vars /\ WF_vars(PublisherRetry)

(***************************************************************************)
(* Part 7: the subscriber of mm_aeron/src/subscriber.rs.  publication      *)
(* holds the messages of the stream the subscription has not polled yet.   *)
(***************************************************************************)
FRAGMENT_LIMIT == 10

MaxPending == 5

\* MessageCapture::handle_aeron_fragment_handler, once per polled message
HandleFragments(buffer, msgs) ==
    IF msgs = <<>> THEN buffer ELSE Some(msgs[Len(msgs)])

\* subscription.poll(handler, 10): the handler sees up to 10 pending
\* messages, oldest first
PollCounts ==
    0..(IF Len(publication) < FRAGMENT_LIMIT
        THEN Len(publication) ELSE FRAGMENT_LIMIT)

subFrame == <<consumerVars, raceVars, engineVars, loopVars, order_book,
              lib_arg, rx, pub_pc, msg_bytes, retry_count, sleep_us, offered,
              dropped, simVars, extVars>>

\* a publisher's offer is accepted by the transport
StreamOffer ==
    /\ sent < MaxPending
    /\ sent' = sent + 1
    /\ publication' = Append(publication, sent + 1)
    /\ UNCHANGED <<message_buffer, received, lib_call, lib_ret, subFrame>>

\* Subscriber::try_receive
TryReceive ==
    \E n \in PollCounts :
        LET polled == HandleFragments(None, SubSeq(publication, 1, n)) IN
        /\ publication' = SubSeq(publication, n + 1, Len(publication))
        /\ message_buffer' = None
        /\ received' = IF polled.some
                       THEN Append(received, polled.val) ELSE received
        /\ lib_call' = "try_receive"
        /\ lib_ret' = Ok(polled)
        /\ UNCHANGED <<sent, subFrame>>

\* Subscriber::receive_timeout: it polls until a poll has left a message in
\* the buffer, or returns ReceiveTimeout when none came within the timeout
ReceiveTimeout ==
    /\ lib_call' = "receive_timeout"
    /\ message_buffer' = None
    /\ \/ \E n \in PollCounts \ {0} :
            LET polled == HandleFragments(None, SubSeq(publication, 1, n))
            IN  /\ publication' = SubSeq(publication, n + 1, Len(publication))
                /\ received' = Append(received, polled.val)
                /\ lib_ret' = Ok(polled.val)
       \/ /\ publication = <<>>
          /\ lib_ret' = Err("ReceiveTimeout")
          /\ UNCHANGED <<publication, received>>
    /\ UNCHANGED <<sent, subFrame>>

InitSubscriber ==
    ConsumerIdle /\ RaceIdle /\ EngineIdle /\ LoopIdle /\ LibIdle /\ IoIdle

NextSubscriber ==
    \/ StreamOffer
    \/ TryReceive
    \/ ReceiveTimeout

SpecSubscriber == InitSubscriber /\ [][NextSubscriber]_vars

(***************************************************************************)
(* Position::apply_fill on its own: fills of either side, at a few prices  *)
(* and sizes, applied to a new Position.  lib_arg is the sequence of the   *)
(* fills applied so far.                                                   *)
(***************************************************************************)
MaxFills == 2

ApplyFillInputs ==
    [side : {"Bid", "Ask"}, price : {9000, 10000, 10150},
     quantity : {15, 30}]

PositionApplyFill ==
    /\ Len(lib_arg) < MaxFills
    /\ \E fill \in ApplyFillInputs :
         /\ position' = ApplyFill(position, fill.side, fill.price,
                                  fill.quantity)
         /\ lib_arg' = Append(lib_arg, fill)
    /\ lib_call' = "apply_fill"
    /\ UNCHANGED <<risk_manager, last_call, checked, check_result, quotes,
                   order_book, lib_ret, consumerVars, raceVars, loopVars,
                   ioVars>>

\* Position::new
InitPosition ==
    /\ ConsumerIdle /\ RaceIdle /\ EngineIdle /\ LoopIdle /\ IoIdle
    /\ order_book = OrderBookNew
    /\ lib_call = "new"
    /\ lib_arg = <<>>
    /\ lib_ret = NoArg

NextPosition == PositionApplyFill

SpecPosition == InitPosition /\ [][NextPosition]_vars

(***************************************************************************)
(* Part 8: the simulated executor (mm_sim_executor/src/lib.rs) and the     *)
(* use the main loop of mm_simulator makes of it.  Timestamps are in       *)
(* nanoseconds.  active_orders is a HashMap: update_market_data visits the *)
(* orders in an order the program does not fix.                            *)
(***************************************************************************)
ORDER_PLACEMENT_LATENCY_US == 10000

MaxOrderId == 4

\* OrderBookSimulator::place_order
PlaceOrder(sim, side, price, quantity, timestamp) ==
    LET order_id == sim.next_order_id
        order == [order_id |-> order_id, side |-> side, price |-> price,
                  remaining_quantity |-> quantity,
                  original_quantity |-> quantity,
                  timestamp |-> timestamp + ORDER_PLACEMENT_LATENCY_US * 1000]
    IN  [sim EXCEPT !.next_order_id = @ + 1,
                    !.active_orders = MapInsert(@, order_id, order)]

\* OrderBookSimulator::place_orders_from_quote
PlaceOrdersFromQuote(sim, quote, timestamp) ==
    LET with_bid == IF quote.bid_size > 0
                    THEN PlaceOrder(sim, "Bid", quote.bid_price,
                                    quote.bid_size, timestamp)
                    ELSE sim
    IN  IF quote.ask_size > 0
        THEN PlaceOrder(with_bid, "Ask", quote.ask_price, quote.ask_size,
                        timestamp)
        ELSE with_bid

\* OrderBookSimulator::cancel_all_orders
CancelAllOrders(sim) == [sim EXCEPT !.active_orders = EmptyMap]

NotYetActive_Inclusive(order, timestamp) == timestamp <= order.timestamp

\* update_market_data: "Order not yet active due to latency"
NotYetActive(order, timestamp) == timestamp < order.timestamp

\* update_market_data: should_fill
ShouldFill(order, ob, last_trade_price) ==
    IF order.side = "Bid"
    THEN IF last_trade_price.some
         THEN last_trade_price.val <= order.price
         ELSE BestAsk(ob).some /\ BestAsk(ob).val[1] <= order.price
    ELSE IF last_trade_price.some
         THEN last_trade_price.val >= order.price
         ELSE BestBid(ob).some /\ BestBid(ob).val[1] >= order.price

\* calculate_fill_quantity with fill_probability_factor 0.8:
\* FixedPoint::from_f64 rounds to the nearest raw unit
CalculateFillQuantity(order) ==
    IF order.remaining_quantity >= 0
    THEN (4 * order.remaining_quantity + 2) \div 5
    ELSE 0 - ((2 - 4 * order.remaining_quantity) \div 5)

IsFullFill_Strict(remaining_quantity) == remaining_quantity < 0

\* update_market_data: is_full_fill
IsFullFill(remaining_quantity) == remaining_quantity <= 0

\* update_market_data: the body of its loop for one order, and the removal
\* of the order if it was pushed on orders_to_remove
UpdateOrder(sim, order_id, ob, timestamp, last_trade_price) ==
    LET order == sim.active_orders[order_id]
        fill_quantity == CalculateFillQuantity(order)
        remaining == order.remaining_quantity - fill_quantity
        fill == [order_id |-> order_id, side |-> order.side,
                 price |-> order.price, quantity |-> fill_quantity,
                 is_maker |-> TRUE, timestamp |-> timestamp]
    IN  IF NotYetActive(order, timestamp)
           \/ ~ShouldFill(order, ob, last_trade_price)
           \/ fill_quantity <= 0
        THEN sim
        ELSE [sim EXCEPT
                !.fills = Append(@, fill),
                !.position = ApplyFill(@, order.side, order.price,
                                       fill_quantity),
                !.active_orders =
                    IF IsFullFill(remaining)
                    THEN MapRemove(@, order_id)
                    ELSE [@ EXCEPT ![order_id].remaining_quantity =
                                       remaining]]

RECURSIVE UpdateMarketData(_, _, _, _, _)
\* OrderBookSimulator::update_market_data, visiting the orders as listed
UpdateMarketData(sim, order_ids, ob, timestamp, last_trade_price) ==
    IF order_ids = <<>>
    THEN sim
    ELSE UpdateMarketData(UpdateOrder(sim, Head(order_ids), ob, timestamp,
                                      last_trade_price),
                          Tail(order_ids), ob, timestamp, last_trade_price)

\* the orders in which a HashMap with these keys can be iterated
IterationOrders(keys) ==
    {ids \in [1..Cardinality(keys) -> keys] :
        \A i, j \in DOMAIN ids : i # j => ids[i] # ids[j]}

\* OrderBookSimulator::drain_fills
DrainFills(sim) == [sim |-> [sim EXCEPT !.fills = <<>>], ret |-> sim.fills]

\* SystemTime::now() when a quote is handled and when a batch is handled
QuoteTimestamps == {0}
BatchTimestamps == {9999999, 10000000}

SimQuotes ==
    {[bid_price |-> 9950, bid_size |-> sizes[1], ask_price |-> 10050,
      ask_size |-> sizes[2]] : sizes \in {<<10, 10>>, <<2, 0>>, <<0, 10>>}}

SimBatches ==
    {[timestamp |-> 1, bids |-> <<[price |-> 9900, size |-> 1]>>,
      asks |-> <<[price |-> 10100, size |-> 1]>>],
     [timestamp |-> 1, bids |-> <<>>,
      asks |-> <<[price |-> 9950, size |-> 1]>>],
     [timestamp |-> 1, bids |-> <<[price |-> 10050, size |-> 1]>>,
      asks |-> <<>>],
     [timestamp |-> 1, bids |-> <<[price |-> 10050, size |-> 0]>>,
      asks |-> <<[price |-> 9950, size |-> 0]>>]}

simFrame == <<consumerVars, raceVars, engineVars, rx, sent, pub_pc,
              msg_bytes, retry_count, sleep_us, offered, dropped, subVars,
              clock_ms, hb_stream, hb_last_sent, last_heartbeat_timestamp,
              hb_received_at, last_heartbeat_check, recv_started,
              last_quote_publish, orderbook_synchronized, extVars>>

\* main loop of mm_simulator: a quote arrived on the quotes stream
SimulatorOnQuote ==
    /\ pc = "top"
    /\ simulator.next_order_id + 1 <= MaxOrderId
    /\ \E quote \in SimQuotes, timestamp \in QuoteTimestamps :
         LET placed == PlaceOrdersFromQuote(CancelAllOrders(simulator),
                                            quote, timestamp)
         IN  /\ simulator' = placed
             /\ sim_log' =
                  [sim_log EXCEPT !.placed_at =
                      [id \in DOMAIN @ \cup DOMAIN placed.active_orders |->
                          IF id \in DOMAIN @ THEN @[id] ELSE timestamp]]
             /\ lib_call' = "place_orders_from_quote"
             /\ lib_arg' = [timestamp |-> timestamp]
             /\ lib_ret' = NoArg
    /\ UNCHANGED <<pc, order_book, publication>>
    /\ UNCHANGED simFrame

\* publish_fills: the fills are offered in order; the first refused offer
\* returns its error, which main returns in turn
PublishFills(fills) ==
    \E accepted \in 0..Len(fills) :
        /\ publication' = publication \o SubSeq(fills, 1, accepted)
        /\ pc' = IF accepted = Len(fills) THEN "top" ELSE "exited"

\* main loop of mm_simulator: a batch arrived and was applied to the book;
\* update_market_data, drain_fills, publish_fills
SimulatorOnMarketData ==
    /\ pc = "top"
    /\ \E b \in SimBatches, timestamp \in BatchTimestamps,
          order_ids \in IterationOrders(DOMAIN simulator.active_orders) :
         LET ob == OrderBookApplyBatch(order_book, b)
             updated == UpdateMarketData(simulator, order_ids, ob,
                                         timestamp, None)
             drained == DrainFills(updated)
         IN  /\ order_book' = ob
             /\ simulator' = drained.sim
             /\ sim_log' = [sim_log EXCEPT !.produced = @ \o updated.fills]
             /\ lib_call' = "update_market_data"
             /\ lib_arg' = [timestamp |-> timestamp,
                            before |-> simulator.active_orders]
             /\ lib_ret' = updated.fills
             /\ PublishFills(drained.ret)
    /\ UNCHANGED simFrame

\* main loop of mm_simulator: receive() timed out; drain_fills is called
\* for the test and again for the fills to publish
SimulatorOnReceiveTimeout ==
    /\ pc = "top"
    /\ LET tested == DrainFills(simulator)
           drained == DrainFills(tested.sim)
       IN  /\ lib_call' = "drain_fills"
           /\ lib_arg' = NoArg
           /\ lib_ret' = tested.ret
           /\ IF tested.ret # <<>>
              THEN /\ simulator' = drained.sim
                   /\ PublishFills(drained.ret)
              ELSE /\ simulator' = tested.sim
                   /\ UNCHANGED <<pc, publication>>
    /\ UNCHANGED <<sim_log, order_book>>
    /\ UNCHANGED simFrame

InitSimulator ==
    ConsumerIdle /\ RaceIdle /\ EngineIdle /\ LoopIdle /\ LibIdle /\ IoIdle

NextSimulator ==
    \/ SimulatorOnQuote
    \/ SimulatorOnMarketData
    \/ SimulatorOnReceiveTimeout

SpecSimulator == InitSimulator /\ [][NextSimulator]_vars

(***************************************************************************)
(* Part 9: the WebSocket ingestor (mm_ws/src/ingestion.rs) and the three   *)
(* programs that run it: mm_collector's main ("collector"),                *)
(* ProductionIngestor with one symbol ("single", connect_and_ingest_single)*)
(* and with several ("multi", MultiSymbolIngestor::start_all).  One        *)
(* connection is followed; the collector's four are the same code.  The    *)
(* socket is a blocking one (tungstenite::connect, no read timeout set):   *)
(* ws.read() returns when a frame has arrived.                             *)
(***************************************************************************)
QueueCapacity == 2    \* frames the ingestor's channel holds
MaxFrames == 2        \* frames the server sends

Deployments == {"collector", "single", "multi"}

wsFrame == <<coreVars, replayVars, limiterVars>>

\* The ingestor object holding the sender of the processing thread's
\* channel is alive: the collector moves it into the reader thread, the
\* production paths keep it until the connect function returns.
SenderAlive ==
    IF deployment = "collector"
    THEN threads.reader.pc # "done"
    ELSE threads.main.pc # "done"

\* mm_collector main: the ingestor's running flag is stored true before
\* the processing thread is started.
CollectorStoreFlags ==
    /\ deployment = "collector"
    /\ threads.main.pc = "init"
    /\ flag' = [flag EXCEPT !.ingestor1 = TRUE]
    /\ threads' = [threads EXCEPT !.main.pc = "start_processing"]
    /\ UNCHANGED <<deployment, chan, socket, arrived, handled, ctrl_c>>
    /\ UNCHANGED wsFrame

\* ProductionIngestor::start: the running flag, the Ctrl-C handler and the
\* metrics thread.
ProductionStart ==
    /\ deployment \in {"single", "multi"}
    /\ threads.main.pc = "init"
    /\ flag' = [flag EXCEPT !.process = TRUE]
    /\ ctrl_c' = "handler"
    /\ threads' = [threads EXCEPT !.main.pc = "loop_check",
                                  !.periodic.pc = "loop"]
    /\ UNCHANGED <<deployment, chan, socket, arrived, handled>>
    /\ UNCHANGED wsFrame

\* run_single_symbol / run_multi_symbol: the test of the running flag
\* before connecting.
ProductionLoopCheck ==
    /\ threads.main.pc = "loop_check"
    /\ threads' = [threads EXCEPT !.main.pc =
                       IF ~flag.process THEN "done"
                       ELSE IF deployment = "single" THEN "start_processing"
                       ELSE "start_all"]
    /\ UNCHANGED <<deployment, flag, chan, socket, arrived, handled, ctrl_c>>
    /\ UNCHANGED wsFrame

\* MultiSymbolIngestor::start_all, its first statement.
StartAll ==
    /\ threads.main.pc = "start_all"
    /\ flag' = [flag EXCEPT !.multi = TRUE]
    /\ threads' = [threads EXCEPT !.main.pc = "start_processing"]
    /\ UNCHANGED <<deployment, chan, socket, arrived, handled, ctrl_c>>
    /\ UNCHANGED wsFrame

\* BinanceIngestor::start_processing_thread on the ingestor object 1: the
\* thread holds clones of that object's receiver and running flag.
StartProcessingThread ==
    /\ threads.main.pc = "start_processing"
    /\ threads' = [threads EXCEPT
                      !.processing = [pc |-> "loop", chan |-> 1,
                                      flag |-> "ingestor1"],
                      !.main.pc = IF deployment = "collector"
                                  THEN "set_handler"
                                  ELSE IF deployment = "single" THEN "run"
                                  ELSE "spawn_reader"]
    /\ UNCHANGED <<deployment, flag, chan, socket, arrived, handled, ctrl_c>>
    /\ UNCHANGED wsFrame

\* mm_collector main: shutdown_handler::setup_multi
CollectorSetHandler ==
    /\ threads.main.pc = "set_handler"
    /\ ctrl_c' = "handler"
    /\ threads' = [threads EXCEPT !.main.pc = "spawn"]
    /\ UNCHANGED <<deployment, flag, chan, socket, arrived, handled>>
    /\ UNCHANGED wsFrame

\* mm_collector main: the ingestion thread, the publisher thread and the
\* state and heartbeat threads are spawned.
CollectorSpawn ==
    /\ threads.main.pc = "spawn"
    /\ threads' = [threads EXCEPT
                      !.reader = [pc |-> "start", chan |-> 1,
                                  flag |-> "ingestor1"],
                      !.periodic.pc = "loop",
                      !.publisher.pc = "recv",
                      !.main.pc = "sleep"]
    /\ UNCHANGED <<deployment, flag, chan, socket, arrived, handled, ctrl_c>>
    /\ UNCHANGED wsFrame

\* mm_collector main: the sleep loop has seen running false; the ingestor's
\* flag is stored false.
CollectorStop ==
    /\ threads.main.pc = "sleep"
    /\ ~flag.process
    /\ flag' = [flag EXCEPT !.ingestor1 = FALSE]
    /\ threads' = [threads EXCEPT !.main.pc = "join_reader"]
    /\ UNCHANGED <<deployment, chan, socket, arrived, handled, ctrl_c>>
    /\ UNCHANGED wsFrame

\* connect_and_ingest_single: ingestor.run() is called on the object whose
\* processing thread was started; the caller waits for it to return.
SingleRun ==
    /\ threads.main.pc = "run"
    /\ threads' = [threads EXCEPT
                      !.reader = [pc |-> "start", chan |-> 1,
                                  flag |-> "ingestor1"],
                      !.main.pc = "join_reader"]
    /\ UNCHANGED <<deployment, flag, chan, socket, arrived, handled, ctrl_c>>
    /\ UNCHANGED wsFrame

\* start_all: the ingestion thread runs a new BinanceIngestor (object 2,
\* with a channel of its own) whose running flag is replaced by the multi
\* ingestor's.
MultiSpawnReader ==
    /\ threads.main.pc = "spawn_reader"
    /\ threads' = [threads EXCEPT
                      !.reader = [pc |-> "start", chan |-> 2,
                                  flag |-> "multi"],
                      !.main.pc = "join_processing"]
    /\ UNCHANGED <<deployment, flag, chan, socket, arrived, handled, ctrl_c>>
    /\ UNCHANGED wsFrame

JoinReader ==
    /\ threads.main.pc = "join_reader"
    /\ threads.reader.pc = "done"
    /\ threads' = [threads EXCEPT !.main.pc =
                       IF deployment = "multi" THEN "done"
                       ELSE "join_processing"]
    /\ UNCHANGED <<deployment, flag, chan, socket, arrived, handled, ctrl_c>>
    /\ UNCHANGED wsFrame

JoinProcessing ==
    /\ threads.main.pc = "join_processing"
    /\ threads.processing.pc = "done"
    /\ threads' = [threads EXCEPT !.main.pc =
                       IF deployment = "collector" THEN "join_publisher"
                       ELSE IF deployment = "single" THEN "done"
                       ELSE "join_reader"]
    /\ UNCHANGED <<deployment, flag, chan, socket, arrived, handled, ctrl_c>>
    /\ UNCHANGED wsFrame

\* mm_collector main: tx is dropped, the publisher thread is joined.
JoinPublisher ==
    /\ threads.main.pc = "join_publisher"
    /\ threads.publisher.pc = "done"
    /\ threads' = [threads EXCEPT !.main.pc = "join_periodic"]
    /\ UNCHANGED <<deployment, flag, chan, socket, arrived, handled, ctrl_c>>
    /\ UNCHANGED wsFrame

JoinPeriodic ==
    /\ threads.main.pc = "join_periodic"
    /\ threads.periodic.pc = "done"
    /\ threads' = [threads EXCEPT !.main.pc = "done"]
    /\ UNCHANGED <<deployment, flag, chan, socket, arrived, handled, ctrl_c>>
    /\ UNCHANGED wsFrame

\* The Ctrl-C handler: the collector's stores false to its running flag and
\* to the ingestors' flags, ProductionIngestor's to its running flag.
CtrlC ==
    /\ ctrl_c = "handler"
    /\ ctrl_c' = "received"
    /\ flag' = IF deployment = "collector"
               THEN [flag EXCEPT !.process = FALSE, !.ingestor1 = FALSE]
               ELSE [flag EXCEPT !.process = FALSE]
    /\ UNCHANGED <<deployment, chan, threads, socket, arrived, handled>>
    /\ UNCHANGED wsFrame

\* The server sends a frame.
FrameArrives ==
    /\ arrived < MaxFrames
    /\ \E kind \in {"text", "close"} :
           socket' = Append(socket, [kind |-> kind, id |-> arrived + 1])
    /\ arrived' = arrived + 1
    /\ UNCHANGED <<deployment, flag, chan, threads, handled, ctrl_c>>
    /\ UNCHANGED wsFrame

\* BinanceIngestor::run, its first statement.
RunStart ==
    /\ threads.reader.pc = "start"
    /\ flag' = [flag EXCEPT ![threads.reader.flag] = TRUE]
    /\ threads' = [threads EXCEPT !.reader.pc = "loop"]
    /\ UNCHANGED <<deployment, chan, socket, arrived, handled, ctrl_c>>
    /\ UNCHANGED wsFrame

\* run: the loop condition.
RunLoopCheck ==
    /\ threads.reader.pc = "loop"
    /\ threads' = [threads EXCEPT !.reader.pc =
                       IF flag[threads.reader.flag] THEN "read"
                       ELSE "returned"]
    /\ UNCHANGED <<deployment, flag, chan, socket, arrived, handled, ctrl_c>>
    /\ UNCHANGED wsFrame

\* run: ws.read() returns a frame; a data frame is offered to the channel
\* with try_send and dropped when the channel is full, a close frame ends
\* the loop.
RunRead ==
    /\ threads.reader.pc = "read"
    /\ socket # <<>>
    /\ socket' = Tail(socket)
    /\ IF Head(socket).kind = "close"
       THEN /\ threads' = [threads EXCEPT !.reader.pc = "returned"]
            /\ UNCHANGED chan
       ELSE /\ threads' = [threads EXCEPT !.reader.pc = "loop"]
            /\ chan' = IF Len(chan[threads.reader.chan]) < QueueCapacity
                       THEN [chan EXCEPT ![threads.reader.chan] =
                                 Append(@, Head(socket).id)]
                       ELSE chan
    /\ UNCHANGED <<deployment, flag, arrived, handled, ctrl_c>>
    /\ UNCHANGED wsFrame

\* run has returned: the collector's ingestion thread stores false to the
\* process's running flag and ends.
ReaderExit ==
    /\ threads.reader.pc = "returned"
    /\ threads' = [threads EXCEPT !.reader.pc = "done"]
    /\ flag' = IF deployment = "collector"
               THEN [flag EXCEPT !.process = FALSE]
               ELSE flag
    /\ UNCHANGED <<deployment, chan, socket, arrived, handled, ctrl_c>>
    /\ UNCHANGED wsFrame

\* The processing thread: the loop condition.
ProcessingLoopCheck ==
    /\ threads.processing.pc = "loop"
    /\ threads' = [threads EXCEPT !.processing.pc =
                       IF flag[threads.processing.flag] THEN "recv"
                       ELSE "done"]
    /\ UNCHANGED <<deployment, flag, chan, socket, arrived, handled, ctrl_c>>
    /\ UNCHANGED wsFrame

\* The processing thread: recv_timeout returns a frame, which goes to the
\* callback, or Disconnected, which ends the loop, or Timeout.
ProcessingRecv ==
    /\ threads.processing.pc = "recv"
    /\ IF chan[threads.processing.chan] # <<>>
       THEN /\ handled' = Append(handled,
                                 Head(chan[threads.processing.chan]))
            /\ chan' = [chan EXCEPT ![threads.processing.chan] = Tail(@)]
            /\ threads' = [threads EXCEPT !.processing.pc = "loop"]
       ELSE /\ threads' = [threads EXCEPT !.processing.pc =
                               IF SenderAlive THEN "loop" ELSE "done"]
            /\ UNCHANGED <<chan, handled>>
    /\ UNCHANGED <<deployment, flag, socket, arrived, ctrl_c>>
    /\ UNCHANGED wsFrame

\* The state, heartbeat and metrics threads: while running { sleep; ... }
PeriodicExit ==
    /\ threads.periodic.pc = "loop"
    /\ ~flag.process
    /\ threads' = [threads EXCEPT !.periodic.pc = "done"]
    /\ UNCHANGED <<deployment, flag, chan, socket, arrived, handled, ctrl_c>>
    /\ UNCHANGED wsFrame

\* The collector's publisher thread ends when every sender of its channel
\* is gone: main's tx, dropped before the join, and the clone owned by the
\* processing thread's callback.
PublisherExit ==
    /\ threads.publisher.pc = "recv"
    /\ threads.main.pc = "join_publisher"
    /\ threads.processing.pc = "done"
    /\ threads' = [threads EXCEPT !.publisher.pc = "done"]
    /\ UNCHANGED <<deployment, flag, chan, socket, arrived, handled, ctrl_c>>
    /\ UNCHANGED wsFrame

InitIngest ==
    /\ ConsumerIdle /\ RaceIdle /\ EngineIdle /\ LoopIdle /\ LibIdle
    /\ StreamsIdle /\ ReplayIdle /\ LimiterIdle
    /\ deployment \in Deployments
    /\ flag = [f \in FlagNames |->
                  f = "process" /\ deployment = "collector"]
    /\ chan = [c \in {1, 2} |-> <<>>]
    /\ threads = [t \in ThreadNames |->
                     IF t = "main" THEN [Unspawned EXCEPT !.pc = "init"]
                     ELSE Unspawned]
    /\ socket = <<>>
    /\ arrived = 0
    /\ handled = <<>>
    /\ ctrl_c = "default"

MainStep ==
    \/ CollectorStoreFlags \/ ProductionStart \/ ProductionLoopCheck
    \/ StartAll \/ StartProcessingThread \/ CollectorSetHandler
    \/ CollectorSpawn \/ CollectorStop \/ SingleRun \/ MultiSpawnReader
    \/ JoinReader \/ JoinProcessing \/ JoinPublisher \/ JoinPeriodic

ReaderStep == RunStart \/ RunLoopCheck \/ RunRead \/ ReaderExit

ProcessingStep == ProcessingLoopCheck \/ ProcessingRecv

NextIngest ==
    \/ CollectorStoreFlags
    \/ ProductionStart
    \/ ProductionLoopCheck
    \/ StartAll
    \/ StartProcessingThread
    \/ CollectorSetHandler
    \/ CollectorSpawn
    \/ CollectorStop
    \/ SingleRun
    \/ MultiSpawnReader
    \/ JoinReader
    \/ JoinProcessing
    \/ JoinPublisher
    \/ JoinPeriodic
    \/ CtrlC
    \/ FrameArrives
    \/ RunStart
    \/ RunLoopCheck
    \/ RunRead
    \/ ReaderExit
    \/ ProcessingLoopCheck
    \/ ProcessingRecv
    \/ PeriodicExit
    \/ PublisherExit

SpecIngest == InitIngest /\ [][NextIngest]_vars

\* Every thread that can take a step eventually takes one; the server and
\* the user are under no obligation.
SpecIngestFair ==
    /\ SpecIngest
    /\ WF_vars(MainStep)
    /\ WF_vars(ReaderStep)
    /\ WF_vars(ProcessingStep)
    /\ WF_vars(PeriodicExit)
    /\ WF_vars(PublisherExit)

(***************************************************************************)
(* Part 10: the backtest replay (mm_backtest/src/lib.rs, replay.rs) and    *)
(* the replay thread of mm_backtest.  An event is carried as its position  *)
(* in the loaded list and its timestamp.  publication holds the events the *)
(* transport accepted, in the order of the offers.                         *)
(***************************************************************************)
MaxEvents == 3        \* events loaded
MaxReplaySteps == 3   \* advances of the real clock
ReplayStepNs == 500   \* nanoseconds per advance

EventTimestamps == {1000, 2000}
ReplaySpeeds == {1, 2}

HistoricalEvents(n) ==
    {[i \in 1..n |-> [id |-> i, timestamp |-> ts[i]]] :
        ts \in [1..n -> EventTimestamps]}

\* Vec::sort_by_key(|e| e.timestamp()): a stable sort.
RECURSIVE InsertByKey(_, _)
InsertByKey(sorted, e) ==
    IF sorted = <<>> THEN <<e>>
    ELSE IF Head(sorted).timestamp <= e.timestamp
         THEN <<Head(sorted)>> \o InsertByKey(Tail(sorted), e)
         ELSE <<e>> \o sorted

RECURSIVE SortByKey(_)
SortByKey(events) ==
    IF events = <<>> THEN <<>>
    ELSE InsertByKey(SortByKey(SubSeq(events, 1, Len(events) - 1)),
                     events[Len(events)])

\* HistoricalDataStream::new
HistoricalDataStreamNew(events, replay_speed) ==
    [events |-> SortByKey(events),
     current_time |-> IF events = <<>> THEN 0
                      ELSE SortByKey(events)[1].timestamp,
     replay_speed |-> replay_speed]

\* DataReplayEngine::current_simulated_time; simulated_start_time is the
\* stream's current_time, which no method changes.
CurrentSimulatedTime ==
    data_stream.current_time + elapsed_real * data_stream.replay_speed

\* The events at the front of the queue that tick's loop takes.
RECURSIVE DueEvents(_, _)
DueEvents(events, current_sim_time) ==
    IF events = <<>> \/ Head(events).timestamp > current_sim_time
    THEN <<>>
    ELSE <<Head(events)>> \o DueEvents(Tail(events), current_sim_time)

replayFrame == <<consumerVars, raceVars, engineVars, loopVars, order_book,
                 rx, sent, pub_pc, msg_bytes, retry_count, sleep_us, offered,
                 dropped, subVars, simVars, wsVars, limiterVars>>

\* Real time passes.
ReplayClockTick ==
    /\ elapsed_real < MaxReplaySteps * ReplayStepNs
    /\ elapsed_real' = elapsed_real + ReplayStepNs
    /\ UNCHANGED <<loaded, data_stream, replay_pc, publication, lib_call,
                   lib_arg, lib_ret>>
    /\ UNCHANGED replayFrame

\* One iteration of the replay thread's loop: tick() takes every event
\* whose timestamp has been reached and publishes it; the event is taken
\* from the queue before it is offered, a refused offer makes tick return
\* the error, and the thread leaves its loop on an error.  accepted is the
\* number of offers the transport accepts.
ReplayTick ==
    /\ replay_pc = "running"
    /\ LET due == DueEvents(data_stream.events, CurrentSimulatedTime)
       IN  \E accepted \in 0..Len(due) :
             /\ publication' = publication \o SubSeq(due, 1, accepted)
             /\ IF accepted = Len(due)
                THEN /\ data_stream' =
                          [data_stream EXCEPT !.events =
                               SubSeq(@, Len(due) + 1, Len(@))]
                     /\ lib_ret' = Ok(Len(due))
                     /\ replay_pc' = IF Len(data_stream.events) = Len(due)
                                     THEN "complete" ELSE "running"
                ELSE /\ data_stream' =
                          [data_stream EXCEPT !.events =
                               SubSeq(@, accepted + 2, Len(@))]
                     /\ lib_ret' = Err("Aeron publish error")
                     /\ replay_pc' = "error"
    /\ lib_call' = "tick"
    /\ lib_arg' = CurrentSimulatedTime
    /\ UNCHANGED <<loaded, elapsed_real>>
    /\ UNCHANGED replayFrame

InitReplay ==
    /\ ConsumerIdle /\ RaceIdle /\ EngineIdle /\ LoopIdle /\ LibIdle
    /\ StreamsIdle /\ WsIdle /\ LimiterIdle
    /\ \E n \in 1..MaxEvents :
         \E events \in HistoricalEvents(n), replay_speed \in ReplaySpeeds :
           /\ loaded = events
           /\ data_stream = HistoricalDataStreamNew(events, replay_speed)
    /\ elapsed_real = 0
    /\ replay_pc = "running"

NextReplay ==
    \/ ReplayClockTick
    \/ ReplayTick

SpecReplay == InitReplay /\ [][NextReplay]_vars

(***************************************************************************)
(* Part 11: the rate limiters (mm_ratelimit).  FixedWindow::try_acquire is *)
(* modelled one atomic operation at a time for two threads sharing one     *)
(* limiter; MultiLimiter::try_acquire is modelled as one call.             *)
(***************************************************************************)
Limit == 2
WindowNanos == 2
MaxTimeNanos == 3
MaxWeight == 2
MaxCalls == 2
MaxLimiters == 2

Callers == {1, 2}
Weights == 0..MaxWeight

\* The window a point in time lies in; the first window starts at 0.
WindowOf(t, window_nanos) == t \div window_nanos

limiterFrame == <<consumerVars, raceVars, engineVars, loopVars, order_book,
                  pubVars, subVars, simVars, wsVars, replayVars>>

\* Time passes.
LimiterClockTick ==
    /\ time_nanos < MaxTimeNanos
    /\ time_nanos' = time_nanos + 1
    /\ UNCHANGED <<fixed_window, callers, granted, limiters, lib_call,
                   lib_arg, lib_ret>>
    /\ UNCHANGED limiterFrame

callFrame == <<time_nanos, limiters, lib_call, lib_arg, lib_ret>>

\* A thread calls try_acquire(weight); weight 0 returns Ok at once.
TryAcquireCall(t) ==
    /\ callers[t].pc = "idle"
    /\ callers[t].calls < MaxCalls
    /\ \E weight \in Weights :
         callers' = [callers EXCEPT ![t] =
             IF weight = 0
             THEN [@ EXCEPT !.calls = @ + 1]
             ELSE [@ EXCEPT !.pc = "now", !.weight = weight,
                            !.called_at = time_nanos, !.calls = @ + 1]]
    /\ UNCHANGED <<fixed_window, granted>>
    /\ UNCHANGED callFrame
    /\ UNCHANGED limiterFrame

\* check_and_reset_window: now_nanos().
ReadNow(t) ==
    /\ callers[t].pc = "now"
    /\ callers' = [callers EXCEPT ![t].pc = "load_window",
                                  ![t].now = time_nanos]
    /\ UNCHANGED <<fixed_window, granted>>
    /\ UNCHANGED callFrame
    /\ UNCHANGED limiterFrame

\* check_and_reset_window: window_start.load and the test of elapsed.
LoadWindowStart(t) ==
    /\ callers[t].pc = "load_window"
    /\ LET window_start == fixed_window.window_start
           elapsed == SaturatingSub(callers[t].now, window_start)
       IN  callers' = [callers EXCEPT
               ![t].window_start = window_start,
               ![t].pc = IF elapsed < fixed_window.window_nanos
                         THEN "load_count" ELSE "cas_window"]
    /\ UNCHANGED <<fixed_window, granted>>
    /\ UNCHANGED callFrame
    /\ UNCHANGED limiterFrame

\* check_and_reset_window: window_start.compare_exchange.
CasWindowStart(t) ==
    /\ callers[t].pc = "cas_window"
    /\ LET window_start == callers[t].window_start
           elapsed == SaturatingSub(callers[t].now, window_start)
           windows_elapsed == elapsed \div fixed_window.window_nanos
           new_window_start ==
               window_start + windows_elapsed * fixed_window.window_nanos
       IN  IF fixed_window.window_start = window_start
           THEN /\ fixed_window' =
                     [fixed_window EXCEPT !.window_start = new_window_start]
                /\ callers' = [callers EXCEPT ![t].pc = "store_count"]
           ELSE /\ callers' = [callers EXCEPT ![t].pc = "load_count"]
                /\ UNCHANGED fixed_window
    /\ UNCHANGED granted
    /\ UNCHANGED callFrame
    /\ UNCHANGED limiterFrame

\* check_and_reset_window: count.store(0) by the thread whose exchange won.
StoreCount(t) ==
    /\ callers[t].pc = "store_count"
    /\ fixed_window' = [fixed_window EXCEPT !.count = 0]
    /\ callers' = [callers EXCEPT ![t].pc = "load_count"]
    /\ UNCHANGED granted
    /\ UNCHANGED callFrame
    /\ UNCHANGED limiterFrame

\* try_acquire's loop: count.load and the test against the limit; the call
\* returns Exceeded when the weight does not fit.
LoadCount(t) ==
    /\ callers[t].pc = "load_count"
    /\ LET current == fixed_window.count
           new_count == current + callers[t].weight
       IN  callers' = [callers EXCEPT ![t] =
               IF new_count > fixed_window.limit
               THEN [NotCalling EXCEPT !.calls = callers[t].calls]
               ELSE [@ EXCEPT !.pc = "cas_count", !.current = current]]
    /\ UNCHANGED <<fixed_window, granted>>
    /\ UNCHANGED callFrame
    /\ UNCHANGED limiterFrame

\* try_acquire's loop: count.compare_exchange_weak, which may also fail
\* when the value is the expected one.  A success grants the weight; it is
\* booked on the window of the call when the exchange happens in the same
\* window.  A failure runs check_and_reset_window and loads count again.
CasCount(t) ==
    /\ callers[t].pc = "cas_count"
    /\ \E spurious \in BOOLEAN :
         IF fixed_window.count = callers[t].current /\ ~spurious
         THEN LET k == WindowOf(time_nanos, fixed_window.window_nanos)
              IN  /\ fixed_window' =
                       [fixed_window EXCEPT
                            !.count = callers[t].current + callers[t].weight]
                  /\ granted' =
                       IF WindowOf(callers[t].called_at,
                                   fixed_window.window_nanos) = k
                       THEN [granted EXCEPT ![k] = @ + callers[t].weight]
                       ELSE granted
                  /\ callers' = [callers EXCEPT ![t] =
                         [NotCalling EXCEPT !.calls = callers[t].calls]]
         ELSE /\ callers' = [callers EXCEPT ![t].pc = "now"]
              /\ UNCHANGED <<fixed_window, granted>>
    /\ UNCHANGED callFrame
    /\ UNCHANGED limiterFrame

InitLimiter ==
    /\ ConsumerIdle /\ RaceIdle /\ EngineIdle /\ LoopIdle /\ LibIdle
    /\ StreamsIdle /\ WsIdle /\ ReplayIdle
    /\ fixed_window = FixedWindowNew(Limit, WindowNanos)
    /\ time_nanos = 0
    /\ callers = [t \in Callers |-> NotCalling]
    /\ granted = [k \in 0..WindowOf(MaxTimeNanos, WindowNanos) |-> 0]
    /\ limiters = <<>>

NextLimiter ==
    \/ LimiterClockTick
    \/ \E t \in Callers : TryAcquireCall(t)
    \/ \E t \in Callers : ReadNow(t)
    \/ \E t \in Callers : LoadWindowStart(t)
    \/ \E t \in Callers : CasWindowStart(t)
    \/ \E t \in Callers : StoreCount(t)
    \/ \E t \in Callers : LoadCount(t)
    \/ \E t \in Callers : CasCount(t)

SpecLimiter == InitLimiter /\ [][NextLimiter]_vars

\* check_and_reset_window run by one thread with no other thread active.
CheckAndResetWindow(fw, now_nanos) ==
    LET elapsed == SaturatingSub(now_nanos, fw.window_start)
        windows_elapsed == elapsed \div fw.window_nanos
    IN  IF elapsed < fw.window_nanos
        THEN fw
        ELSE [fw EXCEPT !.count = 0,
                        !.window_start = @ + windows_elapsed * fw.window_nanos]

\* FixedWindow::try_acquire run by one thread with no other thread active:
\* the limiter after the call and the call's result.
FixedWindowTryAcquire(fw, now_nanos, weight) ==
    IF weight = 0
    THEN [limiter |-> fw, ret |-> Ok(0)]
    ELSE LET in_window == CheckAndResetWindow(fw, now_nanos)
             new_count == in_window.count + weight
         IN  IF new_count > in_window.limit
             THEN [limiter |-> in_window, ret |-> Err("Exceeded")]
             ELSE [limiter |-> [in_window EXCEPT !.count = new_count],
                   ret |-> Ok(0)]

\* MultiLimiter::try_acquire_internal from member i on: each member's
\* try_acquire in turn, returning at the first member that rejects.
RECURSIVE TryAcquireInternal(_, _, _, _)
TryAcquireInternal(ls, i, now_nanos, weight) ==
    IF i > Len(ls)
    THEN [limiters |-> ls, ret |-> Ok(0)]
    ELSE LET r == FixedWindowTryAcquire(ls[i], now_nanos, weight)
             after == [ls EXCEPT ![i] = r.limiter]
         IN  IF r.ret.ok
             THEN TryAcquireInternal(after, i + 1, now_nanos, weight)
             ELSE [limiters |-> after, ret |-> r.ret]

\* MultiLimiter::try_acquire(weight).
MultiTryAcquire ==
    /\ limiters # <<>>
    /\ \E weight \in Weights :
         LET r == TryAcquireInternal(limiters, 1, time_nanos, weight)
         IN  /\ limiters' = r.limiters
             /\ lib_call' = "MultiLimiter::try_acquire"
             /\ lib_arg' = weight
             /\ lib_ret' = r.ret
    /\ UNCHANGED <<fixed_window, time_nanos, callers, granted>>
    /\ UNCHANGED limiterFrame

\* The builder's with_limiter calls: members with their own limits and
\* windows.
MemberLimits == 1..(Limit + 1)
MemberWindows == {WindowNanos, 2 * WindowNanos}
MultiLimiters ==
    UNION {[1..n -> {FixedWindowNew(l, w) :
                         l \in MemberLimits, w \in MemberWindows}] :
               n \in 1..MaxLimiters}

InitMulti ==
    /\ ConsumerIdle /\ RaceIdle /\ EngineIdle /\ LoopIdle /\ LibIdle
    /\ StreamsIdle /\ WsIdle /\ ReplayIdle
    /\ fixed_window = FixedWindowNew(1, 1)
    /\ time_nanos = 0
    /\ callers = [t \in {1, 2} |-> NotCalling]
    /\ granted = [k \in {0} |-> 0]
    /\ limiters \in MultiLimiters

NextMulti ==
    \/ LimiterClockTick
    \/ MultiTryAcquire

SpecMulti == InitMulti /\ [][NextMulti]_vars

(***************************************************************************)
(* Part 12: an order of the simulated executor followed over the ticks on  *)
(* which its fill condition holds, for a configured                        *)
(* fill_probability_factor.  The factor is an f64 of the configuration     *)
(* file; it is kept as a fraction num/den whose products with a raw        *)
(* quantity never end in one half, so that the rounding of from_f64 is the *)
(* rounding of the exact product.                                          *)
(***************************************************************************)
MaxFillQuantity == 12
MaxFillOrders == 2

FillFactors ==
    {[num |-> 1, den |-> 5], [num |-> 4, den |-> 5], [num |-> 1, den |-> 1]}

\* OrderBookSimulator::new(config)
SimulatorNewWith(factor) ==
    [next_order_id |-> 1, active_orders |-> EmptyMap,
     position |-> NewPosition, fills |-> <<>>,
     config |-> [fill_probability_factor |-> factor]]

\* calculate_fill_quantity: remaining_quantity * fill_probability_factor,
\* rounded to the nearest raw unit by FixedPoint::from_f64
CalculateFillQuantityWith(factor, order) ==
    (2 * order.remaining_quantity * factor.num + factor.den)
        \div (2 * factor.den)

\* update_market_data: the body of its loop for one order under the
\* configured factor
UpdateOrderWith(sim, order_id, ob, timestamp, last_trade_price) ==
    LET order == sim.active_orders[order_id]
        fill_quantity ==
            CalculateFillQuantityWith(sim.config.fill_probability_factor,
                                      order)
        remaining == order.remaining_quantity - fill_quantity
        fill == [order_id |-> order_id, side |-> order.side,
                 price |-> order.price, quantity |-> fill_quantity,
                 is_maker |-> TRUE, timestamp |-> timestamp]
    IN  IF NotYetActive(order, timestamp)
           \/ ~ShouldFill(order, ob, last_trade_price)
           \/ fill_quantity <= 0
        THEN sim
        ELSE [sim EXCEPT
                !.fills = Append(@, fill),
                !.position = ApplyFill(@, order.side, order.price,
                                       fill_quantity),
                !.active_orders =
                    IF IsFullFill(remaining)
                    THEN MapRemove(@, order_id)
                    ELSE [@ EXCEPT ![order_id].remaining_quantity =
                                       remaining]]

fillFrame == <<consumerVars, raceVars, engineVars, loopVars, order_book,
               lib_arg, lib_ret, pubVars, subVars, sim_log, extVars>>

FillPrice == 10000
FillTickTimestamp == ORDER_PLACEMENT_LATENCY_US * 1000

\* place_order at time 0, once the order before it has left the map.
FillPlaceOrder ==
    /\ simulator.active_orders = EmptyMap
    /\ simulator.next_order_id <= MaxFillOrders
    /\ \E side \in {"Bid", "Ask"}, quantity \in 1..MaxFillQuantity :
         simulator' = PlaceOrder([simulator EXCEPT !.fills = <<>>,
                                                   !.position = NewPosition],
                                 side, FillPrice, quantity, 0)
    /\ lib_call' = "place_order"
    /\ UNCHANGED fillFrame

\* A tick on which the order is active and the market trades at its price:
\* update_market_data, then drain_fills.
FillTick ==
    /\ simulator.active_orders # EmptyMap
    /\ LET order_id == CHOOSE id \in DOMAIN simulator.active_orders : TRUE
           updated == UpdateOrderWith(simulator, order_id, order_book,
                                      FillTickTimestamp, Some(FillPrice))
       IN  simulator' = DrainFills(updated).sim
    /\ lib_call' = "update_market_data"
    /\ UNCHANGED fillFrame

InitFill ==
    /\ ConsumerIdle /\ RaceIdle /\ EngineIdle /\ LoopIdle /\ LibIdle
    /\ PubSubIdle /\ ExtIdle
    /\ sim_log = [placed_at |-> EmptyMap, produced |-> <<>>]
    /\ \E factor \in FillFactors : simulator = SimulatorNewWith(factor)

NextFill ==
    \/ FillPlaceOrder
    \/ FillTick

SpecFill == InitFill /\ [][NextFill]_vars

\* Ticks keep coming.
SpecFillFair == SpecFill /\ WF_vars(FillTick)

(***************************************************************************)
(* Part 13: the fills stream end to end.  mm_simulator (Part 8) publishes  *)
(* its fills on the stream; the main loop of mm_strategy takes them with   *)
(* try_receive (Part 7) and applies them to its position.  publication     *)
(* holds the fills published and not yet polled, received the fills the    *)
(* strategy applied.                                                       *)
(***************************************************************************)
\* publish_fills: side_byte; mm_strategy: fill_side
SideByte(side) == IF side = "Bid" THEN 0 ELSE 1
FillSide(side_byte) == IF side_byte = 0 THEN "Bid" ELSE "Ask"

\* Main loop of mm_strategy: order_fills_subscriber.try_receive() and, when
\* it returns a message, apply_fill and update_position.
StrategyTryReceiveFill ==
    /\ \E n \in PollCounts :
         LET polled == HandleFragments(None, SubSeq(publication, 1, n))
         IN  /\ publication' = SubSeq(publication, n + 1, Len(publication))
             /\ message_buffer' = None
             /\ IF polled.some
                THEN /\ received' = Append(received, polled.val)
                     /\ UpdatePosition(
                            ApplyFill(position,
                                      FillSide(SideByte(polled.val.side)),
                                      polled.val.price, polled.val.quantity))
                ELSE UNCHANGED <<received, engineVars>>
    /\ UNCHANGED <<consumerVars, raceVars, loopVars, libVars, rx, sent,
                   pub_pc, msg_bytes, retry_count, sleep_us, offered,
                   dropped, simVars, extVars>>

\* The quotes followed on the stream of this part.
FillsOnQuote ==
    /\ simulator.next_order_id < MaxFillOrders
    /\ SimulatorOnQuote

InitFills == InitSimulator

NextFills ==
    \/ FillsOnQuote
    \/ SimulatorOnMarketData
    \/ SimulatorOnReceiveTimeout
    \/ StrategyTryReceiveFill

SpecFills == InitFills /\ [][NextFills]_vars

(***************************************************************************)
(* Part 14: the main loop of mm_strategy with its market-data branch in    *)
(* full: the sync state decides whether a batch is applied, and the loop's *)
(* own flag orderbook_synchronized decides whether the receive-timeout     *)
(* branch publishes a quote.  two_sided tells whether the book has a best  *)
(* bid and a best ask after the batch.                                     *)
(***************************************************************************)
QuotingOnBatch(b, two_sided) ==
    LET p == ShouldProcessUpdate(sync_state, b)
        r == ShouldResync(p.st, clock_ms \div 1000)
    IN  /\ batch' = b
        /\ IF ~p.ret
           THEN IF r.ret
                THEN /\ resync_count < MaxResyncs
                     /\ decision' = "request_resync"
                     /\ resync_count' = resync_count + 1
                     /\ last_request_at' = Some(clock_ms \div 1000)
                     /\ \E fetched \in Fetches :
                          IF fetched.some
                          THEN /\ orderbook' = Seeded(fetched.val)
                               /\ sync_state' = New(fetched.val)
                               /\ orderbook_synchronized' = FALSE
                          ELSE /\ orderbook' = orderbook
                               /\ sync_state' = r.st
                               /\ UNCHANGED orderbook_synchronized
                ELSE /\ p.st.consecutive_skipped_updates <= MaxSkips
                     /\ decision' = "skip"
                     /\ sync_state' = r.st
                     /\ UNCHANGED <<orderbook, resync_count, last_request_at,
                                    orderbook_synchronized>>
           ELSE /\ Len(orderbook.applied) < MaxApplied
                /\ decision' = "apply"
                /\ sync_state' = p.st
                /\ orderbook' = ApplyBatch(orderbook, b)
                /\ orderbook_synchronized' =
                     IF ~orderbook_synchronized /\ p.st.is_synchronized
                        /\ two_sided
                     THEN TRUE
                     ELSE orderbook_synchronized
                /\ UNCHANGED <<resync_count, last_request_at>>

\* Main loop: receive() returned an order book batch.
QuotingOnMarketData ==
    /\ pc = "receive"
    /\ \E b \in Batches, two_sided \in BOOLEAN : QuotingOnBatch(b, two_sided)
    /\ pc' = "top"
    /\ UNCHANGED <<proc, now>>
    /\ UNCHANGED <<clock_ms, hb_stream, hb_last_sent,
                   last_heartbeat_timestamp, hb_received_at,
                   last_heartbeat_check, recv_started, last_quote_publish>>
    /\ UNCHANGED <<engineVars, raceVars, libVars, ioVars>>

InitQuoting ==
    /\ ConsumerInit({"strategy"})
    /\ RaceIdle /\ EngineIdle /\ LoopIdle /\ LibIdle /\ IoIdle

NextQuoting ==
    \/ DailyLossClockTick
    \/ StrategyHeartbeatCheck
    \/ StrategyBeginReceive
    \/ QuotingOnMarketData
    \/ StrategyOnReceiveTimeout

SpecQuoting == InitQuoting /\ [][NextQuoting]_vars

(***************************************************************************)
(* Claims about the sync state machine and the consumers' batch handlers   *)
(***************************************************************************)
Synced == proc \in {"strategy", "simulator"}

\* A step is a batch handled by a sync-validating consumer.
HandledStep == Synced /\ decision' # "none"

IsSyncPoint(st, b) ==
    b.U <= st.snapshot_last_update_id /\ st.snapshot_last_update_id <= b.u

\* C1: from Unsynchronized with snapshot id S, a batch is applied exactly
\* when U <= S <= u, every other batch is skipped and leaves the state
\* Unsynchronized and the book untouched; the applied batch leaves the state
\* Synchronized with last_processed_update_id = u and the skip counter 0, so
\* the first batch with U <= S <= u is the first one applied.
C1_FirstSyncPointIsFirstApplied ==
    [][(HandledStep /\ ~sync_state.is_synchronized
            /\ decision' # "request_resync") =>
         /\ (decision' = "apply") <=> IsSyncPoint(sync_state, batch')
         /\ decision' = "apply" =>
              /\ sync_state'.is_synchronized
              /\ sync_state'.last_processed_update_id = batch'.u
              /\ sync_state'.consecutive_skipped_updates = 0
              /\ orderbook' = ApplyBatch(orderbook, batch')
         /\ decision' = "skip" =>
              /\ ~sync_state'.is_synchronized
              /\ orderbook' = orderbook]_vars

\* C1 witness: a book whose first applied batch came after skipped ones.
C1_Witness ==
    /\ Synced
    /\ decision = "apply"
    /\ sync_state.is_synchronized
    /\ orderbook.applied = <<batch.u>>
    /\ batch.U < sync_state.snapshot_last_update_id
    /\ batch.u > sync_state.snapshot_last_update_id

\* C2: in Synchronized state a batch is applied iff pu = last_processed or
\* pu = 0, and then last_processed becomes u and the skip counter is 0; any
\* other batch is skipped, adds one to the skip counter and leaves the state
\* Unsynchronized.
C2_SyncedAppliesIffContinuous ==
    [][(HandledStep /\ sync_state.is_synchronized) =>
         LET continuous ==
                 \/ batch'.pu = sync_state.last_processed_update_id
                 \/ batch'.pu = 0
         IN  /\ (decision' = "apply") <=> continuous
             /\ continuous =>
                  /\ sync_state'.is_synchronized
                  /\ sync_state'.last_processed_update_id = batch'.u
                  /\ sync_state'.consecutive_skipped_updates = 0
                  /\ orderbook' = ApplyBatch(orderbook, batch')
             /\ ~continuous =>
                  /\ decision' = "skip"
                  /\ ~sync_state'.is_synchronized
                  /\ sync_state'.consecutive_skipped_updates
                       = sync_state.consecutive_skipped_updates + 1
                  /\ orderbook' = orderbook]_vars

\* C2 witness: a batch with unknown predecessor (pu = 0) applied in
\* Synchronized state, after the batch that synchronized.
C2_Witness ==
    /\ Synced
    /\ decision = "apply"
    /\ Len(orderbook.applied) = 2
    /\ batch.pu = 0
    /\ orderbook.applied[1] # 0

\* C6: in Unsynchronized state an all-zero batch is applied, whatever the
\* snapshot id.
C6_LegacyBatchIsSyncPoint ==
    [][(HandledStep /\ ~sync_state.is_synchronized /\ batch' = LegacyBatch)
          => decision' = "apply"]_vars

\* C7: in every consumer process a batch is added to the book only when the
\* sync state machine decided 'apply', and a skipped batch leaves the book
\* as it was.
C7_BookChangesOnlyOnApply ==
    [][/\ Len(orderbook'.applied) > Len(orderbook.applied)
            => decision' = "apply"
       /\ decision' = "skip" => orderbook' = orderbook]_vars

\* C4: a resync request is issued only after at least 20 consecutive skips
\* and at least 30 s after the consumer's previous resync request.
C4_ResyncRequestsThirtySecondsApart ==
    [][resync_count' = resync_count + 1 =>
         /\ sync_state.consecutive_skipped_updates + 1 >= RESYNC_SKIP_THRESHOLD
         /\ last_request_at.some =>
              now - last_request_at.val >= RESYNC_COOLDOWN_SECS]_vars

RaceDone == stream = <<>> /\ \A c \in {1, 2} : conn_sent[c] = FeedLen

SyncIndex(snapshot_id) ==
    CHOOSE k \in 1..FeedLen :
        FeedBatch(k).U <= snapshot_id /\ snapshot_id <= FeedBatch(k).u

ExpectedApplied(snapshot_id) ==
    [i \in 1..(FeedLen - SyncIndex(snapshot_id) + 1) |->
        FeedBatch(SyncIndex(snapshot_id) + i - 1).u]

C3_DuplicatesTolerated ==
    RaceDone => orderbook.applied = ExpectedApplied(orderbook.seed)

(***************************************************************************)
(* Claims about the kill switch and the quote checks                       *)
(***************************************************************************)
\* C8: from kill(reason) until resume(), generate_quotes and its ladder
\* variant return no quote and check_quote rejects every quote; kill sets
\* the killed state with its reason, and no call but resume() clears it.
C8_KillBlocksQuotesUntilResume ==
    [][/\ last_call' = "kill" =>
            risk_manager'.is_killed /\ risk_manager'.kill_reason.some
       /\ risk_manager.is_killed =>
            /\ last_call' \in {"generate_quotes", "generate_ladder_quotes"}
                  => quotes' = <<>>
            /\ last_call' = "check_quote" => check_result' # "Accept"
            /\ ~risk_manager'.is_killed => last_call' = "resume"]_vars

\* C8 witness: a quote that passes every other check, handed to
\* check_quote while the engine is killed, is rejected for the kill.
C8_Witness ==
    /\ risk_manager.is_killed
    /\ last_call = "check_quote"
    /\ check_result = "Strategy killed"
    /\ CheckQuote([risk_manager EXCEPT !.is_killed = FALSE], checked,
                  position, 100) = "Accept"

\* C10: check_quote accepts no quote with bid_price >= ask_price, and every
\* quote returned by generate_quotes or generate_ladder_quotes has
\* bid_price < ask_price.
C10_NoCrossedQuoteAccepted ==
    /\ (last_call = "check_quote" /\ check_result = "Accept")
          => checked.bid_price < checked.ask_price
    /\ \A i \in 1..Len(quotes) : quotes[i].bid_price < quotes[i].ask_price

\* C10 witness: a locked quote (bid_price = ask_price) that passes every
\* other check is rejected as crossed.
C10_Witness ==
    /\ last_call = "check_quote"
    /\ check_result = "Crossed quotes"
    /\ checked.bid_price = checked.ask_price

\* C9: a staleness check made when no heartbeat has been received for
\* longer than the heartbeat timeout sets the kill switch with the reason
\* "Heartbeat timeout"; the strategy stays killed from then on and every
\* later quote request returns no quote.
C9_StaleHeartbeatKills ==
    [][/\ (/\ last_heartbeat_check' # last_heartbeat_check
            /\ clock_ms - hb_received_at > HEARTBEAT_TIMEOUT_MS)
          => /\ risk_manager'.is_killed
             /\ risk_manager'.kill_reason = Some("Heartbeat timeout")
       /\ risk_manager.is_killed =>
            /\ risk_manager'.is_killed
            /\ last_call' = "generate_quotes" => quotes' = <<>>]_vars

\* C9 witness: a heartbeat had been received; none followed for longer
\* than the timeout, the check killed the strategy, and a later quote
\* request on a synchronized book returned nothing.
C9_Witness ==
    /\ risk_manager.kill_reason = Some("Heartbeat timeout")
    /\ hb_received_at > 0
    /\ last_heartbeat_check - hb_received_at > HEARTBEAT_TIMEOUT_MS
    /\ orderbook_synchronized
    /\ last_call = "generate_quotes"
    /\ last_quote_publish = clock_ms
    /\ quotes = <<>>

\* C11: check_quote accepts a quote only if its bid size and its ask size
\* are both above 0 and at most max_order_size.
C11_AcceptedSizesWithinBounds ==
    (last_call = "check_quote" /\ check_result = "Accept") =>
        /\ 0 < checked.bid_size /\ checked.bid_size <= Config.max_order_size
        /\ 0 < checked.ask_size /\ checked.ask_size <= Config.max_order_size

\* C12: once the fills applied by the strategy have brought the realized
\* PnL of its position below max_daily_loss, no quote request returns a
\* quote any more.
C12_NoQuoteAfterDailyLoss ==
    [][(/\ risk_manager.max_daily_loss.some
        /\ position.realized_pnl < risk_manager.max_daily_loss.val
        /\ last_call' = "generate_quotes")
          => quotes' = <<>>]_vars

(***************************************************************************)
(* Claims about the order book                                             *)
(***************************************************************************)
Ladders == {order_book.bids, order_book.asks}

\* C13: after any sequence of update_bid, update_ask and apply_batch calls
\* neither ladder of the book holds a level whose size is 0.
C13_NoZeroSizeLevel == \A m \in Ladders : \A p \in DOMAIN m : m[p] # 0

\* C13 witness: after a batch, a zero-size update_bid has left no level at its
\* price while both ladders still hold other levels.
C13_Witness ==
    /\ lib_call = "update_bid"
    /\ lib_arg.quantity = 0
    /\ lib_arg.price \notin DOMAIN order_book.bids
    /\ order_book.timestamp = 1
    /\ DOMAIN order_book.bids # {}
    /\ DOMAIN order_book.asks # {}

\* C14: an update that carries a negative size is treated as size zero; no
\* level with a negative size is ever stored in the book.
C14_NoNegativeSizeLevel == \A m \in Ladders : \A p \in DOMAIN m : m[p] >= 0

\* C15: whenever a completed apply_batch leaves best_bid.price >=
\* best_ask.price, the call reports the crossed book to its caller.
C15_CrossedBookSurfaced ==
    (/\ lib_call = "apply_batch"
     /\ BestBid(order_book).some /\ BestAsk(order_book).some
     /\ BestBid(order_book).val[1] >= BestAsk(order_book).val[1])
    => lib_ret # Unit

(***************************************************************************)
(* Claims about the binary codec                                           *)
(***************************************************************************)
Decoded == lib_call = "from_bytes"

\* C16: for every encoded message, flipping any single bit of the carried
\* CRC makes decode fail with InvalidChecksum.
C16_FlippedCrcIsInvalidChecksum ==
    (Decoded /\ lib_ret.flipped) => lib_ret.result = Err("InvalidChecksum")

\* What the builder was given, as the accessors of a batch message show it.
BatchView(msg) ==
    [exchange |-> msg.header.exchange, update_type |-> msg.header.update_type,
     encoding |-> msg.header.encoding, symbol_low |-> msg.header.symbol_low,
     symbol_high |-> msg.header.symbol_high,
     timestamp |-> msg.header.timestamp, bids |-> msg.bids, asks |-> msg.asks]

\* C17: for every message type decode(encode(m)) succeeds and yields a
\* message equal to m: for a batch the same header fields and the same bid
\* and ask levels in the same order, for a heartbeat the same fields.
C17_DecodeEncodeIsIdentity ==
    (Decoded /\ ~lib_ret.flipped) =>
        /\ lib_ret.result.ok
        /\ lib_arg.kind = "batch" =>
               BatchView(lib_ret.result.val) = BatchView(lib_arg.msg)
        /\ lib_arg.kind = "heartbeat" =>
               lib_ret.result.val = HeartbeatNew(lib_arg.host,
                                        lib_arg.timestamp, lib_arg.sequence)

\* C18: for every symbol from_str accepts, decoding the value it produced
\* with the scheme it returned yields exactly the original string.
C18_SymbolRoundTrip == lib_call = "decode" => lib_ret.decoded = lib_arg.str

\* C19: the decimal parser and the message decoders end with a value or an
\* error on every input: no panic, no arithmetic overflow, and no read past
\* the end of the buffer.
C19_NoPanicNoOverflow ==
    /\ lib_call = "parse_json_decimal_to_fixed_point" =>
           (lib_ret.ok \/ lib_ret.err \notin {"overflow", "panic"})
    /\ Decoded =>
           /\ lib_ret.result.ok \/ lib_ret.result.err # "panic"
           /\ (lib_arg.kind = "heartbeat" /\ lib_ret.result.ok) =>
                  ~lib_ret.result.reads_past_end

\* C20: decoding a correctly encoded fixed-size message succeeds whatever
\* the alignment of the buffer: an unaligned buffer is decoded by copy.
C20_UnalignedBufferDecodes ==
    (Decoded /\ lib_arg.kind = "heartbeat" /\ ~lib_ret.flipped
     /\ ~lib_ret.aligned) => lib_ret.result.ok

(***************************************************************************)
(* Claims about the publisher thread                                       *)
(***************************************************************************)
BackoffTable == <<10, 20, 40, 80, 160, 320>>

RetryStep ==
    pub_pc = "retry" /\ (pub_pc' = "recv" \/ retry_count' = retry_count + 1)

\* C21: under back-pressure the publisher thread retries the same message,
\* sleeping 10, 20, 40, 80, 160 and then 320 microseconds before retry 0, 1,
\* 2, ...; it never counts more than MAX_RETRIES retries; a message it gives
\* up on is dropped, never published, and the thread goes back to the
\* channel; and the retry loop always ends.
C21_BoundedBackoffRetry ==
    /\ [][RetryStep =>
            /\ sleep_us' = BackoffTable[IF retry_count < 5
                                        THEN retry_count + 1 ELSE 6]
            /\ msg_bytes' = msg_bytes
            /\ rx' = rx]_vars
    /\ [][dropped' # dropped =>
            /\ dropped' = dropped \cup {msg_bytes}
            /\ retry_count = MAX_RETRIES
            /\ pub_pc' = "recv"
            /\ publication' = publication]_vars
    /\ [](retry_count <= MAX_RETRIES)
    /\ [](\A i \in 1..Len(publication) : publication[i] \notin dropped)
    /\ ((pub_pc = "retry") ~> (pub_pc = "recv"))

\* C21 witness: the first message was given up after MAX_RETRIES retries
\* and the next queued message has been published after two retries.
C21_Witness ==
    /\ dropped = {1}
    /\ publication = <<2>>
    /\ retry_count = 2
    /\ sleep_us = 40

\* C22: the messages are offered to the transport in the order of their
\* enqueue, and while a message is being retried it is the latest message
\* offered.
C22_OffersInEnqueueOrder ==
    /\ \A i \in 1..Len(offered) : offered[i] = i
    /\ pub_pc = "retry" => offered[Len(offered)] = msg_bytes

\* C22 witness: the second message is being retried while the third waits
\* in the channel.
C22_Witness ==
    /\ pub_pc = "retry"
    /\ retry_count >= 2
    /\ msg_bytes = 2
    /\ rx = <<3>>
    /\ offered = <<1, 2>>

(***************************************************************************)
(* Claims about the subscriber                                             *)
(***************************************************************************)
\* C23: the messages the receive calls have returned, followed by the
\* messages still pending on the stream, are the messages published, each
\* once and in publication order.
C23_ReceivedExactlyOnceInOrder ==
    received \o publication = [i \in 1..sent |-> i]

(***************************************************************************)
(* Claims about publishing from the main loops                             *)
(***************************************************************************)
\* C24: a publish that fails for one message never ends the main loop: the
\* loop of the process is never left because of it.
C24_PublishFailureKeepsLoopRunning == pc # "exited"

(***************************************************************************)
(* Claims about Position::apply_fill                                       *)
(***************************************************************************)
\* C25: from a flat position, a buy of q at p followed by a sell of q at p'
\* leaves quantity 0 and a realized PnL of (p' - p) * q.
C25_RoundTripRealizesPriceDifference ==
    (/\ Len(lib_arg) = 2
     /\ lib_arg[1].side = "Bid"
     /\ lib_arg[2].side = "Ask"
     /\ lib_arg[1].quantity = lib_arg[2].quantity)
    => /\ position.quantity = 0
       /\ position.realized_pnl =
            TruncDiv((lib_arg[2].price - lib_arg[1].price)
                       * lib_arg[1].quantity, FixedPointScale)

\* C25 witness: 0.15 bought at 101.50 and sold at 90.00, a loss.
C25_Witness ==
    /\ lib_arg = <<[side |-> "Bid", price |-> 10150, quantity |-> 15],
                   [side |-> "Ask", price |-> 9000, quantity |-> 15]>>
    /\ position.quantity = 0
    /\ position.realized_pnl < 0

\* C26: a fill of 2q against a position of q on the other side realizes
\* (fill price - entry price) on q, signed by the position closed, and leaves
\* q on the other side with the fill price as its entry price.
C26_FlipClosesThenOpensRemainder ==
    (/\ Len(lib_arg) = 2
     /\ lib_arg[1].side # lib_arg[2].side
     /\ lib_arg[2].quantity = 2 * lib_arg[1].quantity)
    => LET q == lib_arg[1].quantity
           closed == IF lib_arg[1].side = "Bid" THEN q ELSE 0 - q
       IN  /\ position.quantity = 0 - closed
           /\ position.avg_entry_price = lib_arg[2].price
           /\ position.realized_pnl =
                TruncDiv((lib_arg[2].price - lib_arg[1].price) * closed,
                         FixedPointScale)

\* C26 witness: a short of 0.15 opened at 90.00 and flipped by a buy of 0.30
\* at 101.50.
C26_Witness ==
    /\ lib_arg = <<[side |-> "Ask", price |-> 9000, quantity |-> 15],
                   [side |-> "Bid", price |-> 10150, quantity |-> 30]>>
    /\ position.quantity = 15
    /\ position.realized_pnl < 0

(***************************************************************************)
(* Claims about the simulated executor.  After update_market_data,         *)
(* lib_arg holds the timestamp of the call and the orders active before   *)
(* it, and lib_ret the fills the call produced.                            *)
(***************************************************************************)
UpdateDone == lib_call = "update_market_data"

RECURSIVE FilledQuantity(_, _)
FilledQuantity(fills, order_id) ==
    IF fills = <<>> THEN 0
    ELSE (IF Head(fills).order_id = order_id THEN Head(fills).quantity ELSE 0)
         + FilledQuantity(Tail(fills), order_id)

\* C27: an update_market_data call at a time before placement time plus
\* the placement latency does not fill the order; a call at or after that
\* time fills it whenever the market has reached its price.
C27_NoFillBeforePlacementLatency ==
    UpdateDone =>
        \A id \in DOMAIN lib_arg.before :
            LET active_from == sim_log.placed_at[id]
                                 + ORDER_PLACEMENT_LATENCY_US * 1000
                filled == FilledQuantity(lib_ret, id) > 0
            IN  /\ lib_arg.timestamp < active_from => ~filled
                /\ (/\ lib_arg.timestamp >= active_from
                    /\ ShouldFill(lib_arg.before[id], order_book, None))
                   => filled

\* C27 witness: orders placed at time 0; a call at exactly 10 ms fills one.
C27_Witness ==
    /\ UpdateDone
    /\ lib_arg.timestamp = 10000000
    /\ \E id \in DOMAIN lib_arg.before :
          /\ sim_log.placed_at[id] = 0
          /\ FilledQuantity(lib_ret, id) > 0

\* C28: after update_market_data each order that was active before the
\* call has lost the quantity filled in the call, and is still active
\* exactly when what remains is positive.
C28_ActiveIffRemainingPositive ==
    UpdateDone =>
        /\ DOMAIN simulator.active_orders \subseteq DOMAIN lib_arg.before
        /\ \A id \in DOMAIN lib_arg.before :
            LET remaining == lib_arg.before[id].remaining_quantity
                               - FilledQuantity(lib_ret, id)
            IN  /\ id \in DOMAIN simulator.active_orders <=> remaining > 0
                /\ id \in DOMAIN simulator.active_orders
                     => simulator.active_orders[id].remaining_quantity
                          = remaining

\* C28 witness: one call in which an order of remaining 2 was filled and
\* removed while another was partly filled and kept with remaining 2.
C28_Witness ==
    /\ UpdateDone
    /\ Len(lib_ret) = 2
    /\ \E id \in DOMAIN lib_arg.before :
          /\ id \notin DOMAIN simulator.active_orders
          /\ lib_arg.before[id].remaining_quantity = 2
    /\ \E id \in DOMAIN simulator.active_orders :
          /\ simulator.active_orders[id].remaining_quantity = 2
          /\ FilledQuantity(lib_ret, id) = 8

\* C29: the fills published on the fills stream are the fills
\* update_market_data has produced, each once, and none is left behind in
\* the executor.
C29_EveryFillPublishedOnce ==
    publication = sim_log.produced /\ simulator.fills = <<>>

(***************************************************************************)
(* Claims about the quote ladder.                                          *)
(***************************************************************************)
LadderDone ==
    last_call = "generate_ladder_quotes" /\ lib_call = "generate_ladder_quotes"

\* C30: generate_ladder_quotes(state, n, spacing) returns a prefix of the n
\* levels: it has at most n quotes, the quote at level k is the base quote
\* priced outward by k spacings with its sizes scaled by 1/(k+1), every
\* returned level passed the risk check, and a result shorter than n
\* stopped at a level the risk check rejected.
C30_LadderIsPrefixOfLevels ==
    LadderDone =>
        /\ Len(quotes) <= lib_arg.num_levels
        /\ \A k \in 1..(Len(quotes) - 1) :
               /\ quotes[k + 1] = LevelQuote(quotes[1], k, LevelSpacing)
               /\ CheckQuote(risk_manager, quotes[k + 1], position,
                             lib_arg.mark) = "Accept"
        /\ (Len(quotes) >= 1 /\ Len(quotes) < lib_arg.num_levels)
               => CheckQuote(risk_manager,
                             LevelQuote(quotes[1], Len(quotes), LevelSpacing),
                             position, lib_arg.mark) # "Accept"

(***************************************************************************)
(* Claims about the strategy's quoting.                                    *)
(***************************************************************************)
\* C31: while the book is synchronized and the kill switch is clear, a
\* quote attempt is made at least once per quote-publish interval, also
\* when market data keeps arriving: a loop iteration that handled a
\* message and ends with the interval already passed has made an attempt
\* at the current time.
C31_QuoteAttemptEveryInterval ==
    [][(/\ pc = "receive" /\ pc' = "top"
        /\ orderbook_synchronized /\ orderbook_synchronized'
        /\ ~risk_manager.is_killed
        /\ clock_ms - last_quote_publish > QUOTE_PUBLISH_INTERVAL_MS)
           => last_quote_publish' = clock_ms]_vars

(***************************************************************************)
(* Claims about the WebSocket ingestor's threads.                          *)
(***************************************************************************)
AllExited ==
    \A t \in ThreadNames : threads[t].pc \in {"unspawned", "done"}

\* C32: after Ctrl-C has flipped the running flags, every loop and thread
\* of the collector eventually exits, also when the reader is blocked
\* waiting for a frame that never arrives.
C32_CtrlCStopsEveryThread ==
    (deployment = "collector" /\ ctrl_c = "received") ~> AllExited

\* C40: while the ingestor is running, the thread started by
\* start_processing_thread does not exit before the reader loop has
\* started, and it consumes from the queue the reader fills.
C40_ProcessingServesReaderQueue ==
    ctrl_c # "received" =>
        /\ threads.processing.pc = "done"
              => threads.reader.pc \notin {"unspawned", "start"}
        /\ (threads.processing.pc # "unspawned"
              /\ threads.reader.pc # "unspawned")
              => threads.processing.chan = threads.reader.chan

(***************************************************************************)
(* Claims about the backtest replay.                                       *)
(***************************************************************************)
\* C33: a replay tick publishes exactly the not yet published events whose
\* timestamp is at most the simulated time, in non-decreasing order of
\* timestamp; no event is published twice or before the virtual clock has
\* reached its timestamp, and when the replay has ended every loaded event
\* has been published.
C33_ReplayPublishesEachEventOnce ==
    LET published == {publication[i] : i \in 1..Len(publication)}
        events == {loaded[i] : i \in 1..Len(loaded)}
    IN  /\ \A i \in 1..Len(publication) :
               /\ publication[i].timestamp <= CurrentSimulatedTime
               /\ \A j \in (i + 1)..Len(publication) :
                      /\ publication[i] # publication[j]
                      /\ publication[i].timestamp <= publication[j].timestamp
        /\ lib_call = "tick"
              => \A e \in events :
                     e.timestamp <= lib_arg <=> e \in published
        /\ replay_pc # "running" => published = events


(***************************************************************************)
(* Claims about the rate limiters                                          *)
(***************************************************************************)
\* C34: under concurrent try_acquire calls on one FixedWindow the weight
\* granted within one window never exceeds the limit: for every window, the
\* weight granted to calls that were made and granted inside that window is
\* at most the limit.
C34_WindowNeverOverGranted ==
    \A k \in DOMAIN granted : granted[k] <= fixed_window.limit

\* C35: MultiLimiter::try_acquire is all-or-nothing: a call that a member
\* rejects leaves no member with more quota used than it had, after its
\* window check, before the call.
C35_RejectedCallConsumesNothing ==
    [][(lib_call' = "MultiLimiter::try_acquire" /\ limiters' # limiters
        /\ ~lib_ret'.ok)
           => \A i \in 1..Len(limiters) :
                limiters'[i].count
                    <= CheckAndResetWindow(limiters[i], time_nanos).count]_vars


\* C39: within one sync state the final update ids of the applied batches
\* are strictly increasing: a batch that a sync-validating consumer applies
\* has a final id u greater than the final id of every batch applied since
\* the sync state was created (the book was seeded).
C39_AppliedFinalIdsIncrease ==
    [][(HandledStep /\ decision' = "apply") =>
         \A i \in 1..Len(orderbook.applied) :
             orderbook.applied[i] < batch'.u]_vars


(***************************************************************************)
(* Claims about partial fills                                              *)
(***************************************************************************)
\* C38: an active order whose fill condition holds on every later tick is
\* eventually fully filled and removed from the active map, for every
\* fill_probability_factor in (0, 1].
C38_ActiveOrderEventuallyFilled ==
    (simulator.active_orders # EmptyMap) ~> (simulator.active_orders = EmptyMap)


(***************************************************************************)
(* Claims about the fills stream                                           *)
(***************************************************************************)
\* C37: every fill published by the simulator is applied exactly once to
\* the strategy's position: while every offer was accepted, once the stream
\* holds no unpolled fill the fills applied by the strategy are the fills
\* the simulator produced, in order, and the two position quantities are
\* equal.
C37_StrategyAppliesEveryFill ==
    (pc = "top" /\ publication = <<>>) =>
        /\ received = sim_log.produced
        /\ position.quantity = simulator.position.quantity


(***************************************************************************)
(* Claims about quoting and the sync state                                 *)
(***************************************************************************)
\* A step of the main loop that publishes a quote.
QuotePublished ==
    /\ pc = "receive" /\ pc' = "top"
    /\ last_call' = "generate_quotes"
    /\ quotes' # <<>>

\* C36: the strategy publishes a quote only while its sync state is
\* Synchronized.
C36_QuotesOnlyWhileSynchronized ==
    [][QuotePublished => sync_state.is_synchronized]_vars

====
